---- MODULE Spec2Model ----
(***************************************************************************)
(* A model of the Kafka administration console: the message reader of the *)
(* Kafka gateway (backend/internals/kafka/client.go) and the request      *)
(* pipeline (JWT gate, bootstrap gate, handlers).                          *)
(*                                                                         *)
(* SpecFetch is one FetchMessages call against a topic, with one worker    *)
(* goroutine per partition, the shared channel and the final merge; no     *)
(* record is produced to the topic while the call runs.                    *)
(***************************************************************************)
EXTENDS Integers, Sequences, FiniteSets, TLC

VARIABLES
    log,        \* the topic: partition id -> [base: oldest offset, recs: timestamps]
    snap,       \* the topic as it was when FetchMessages was entered
    fpc,        \* position of the FetchMessages caller
    fLimit,     \* argument limit
    fOrder,     \* argument sortOrder
    fErr,       \* the error FetchMessages returned ("none" when nil)
    budget,     \* messagesPerPartition
    ctxDone,    \* the 15 s context has expired
    wk,         \* partition id -> the worker goroutine's state
    chan,       \* messagesChan: messages sent and not yet received
    chanClosed, \* close(messagesChan) has run
    messages,   \* the caller's slice, in arrival order
    result,     \* the slice FetchMessages returned
    clock,      \* time.Now().Unix(), in seconds
    users,      \* data/users.csv: username -> password
    token,      \* the token the last successful Login issued
    apiSlot,    \* var kafkaService of package api, the slot the handlers read
    mwSlot,     \* var kafkaService of package middleware
    handles,    \* how many Kafka client handles have been constructed
    connected,  \* endpoints of the successful check-connection requests, in order
    last,       \* the last request the server answered and what it did
    open,       \* ids of the Kafka client handles that are open
    gw,         \* the gateway call in progress against the cluster
    inflight    \* the requests being served concurrently, by request id

fetchVars == <<log, snap, fpc, fLimit, fOrder, fErr, budget, ctxDone,
               wk, chan, chanClosed, messages, result>>

pipeVars ==
    <<clock, users, token, apiSlot, mwSlot, handles, connected, last, open,
      gw, inflight>>

vars == <<fetchVars, pipeVars>>

-----------------------------------------------------------------------------
(* Bounds of the model *)

\* longest partition log among the exhaustively enumerated small topics
MaxLen == 1

\* the most slots of the channel's buffer the model keeps
MaxSlots == 2

\* record timestamps (ms) of the small topics
Timestamps == {1, 2}
\* partition counts of the small topics
PartitionCounts == {1, 2}
\* the limits a call is made with
Limits == {0, 1, 2}
\* the sort orders a call is made with
Orders == {"newest", "oldest"}

-----------------------------------------------------------------------------
(* Program constants of FetchMessages *)

fetchMultiplier == 3
DefaultPerPartition == 50
MinPerPartition == 20
MaxPerPartition == 200
ChanCap == 1000

max(a, b) == IF a > b THEN a ELSE b

min(a, b) == IF a < b THEN a ELSE b

\* the buffer of messagesChan, scaled down so that it does fill up: a send
\* blocks while Slots messages wait in the channel
Slots == min(ChanCap, MaxSlots)

\* a budget whose quotient is rounded up
PerPartitionRoundedUp(L, P) ==
    IF L > 0
    THEN min(max((L * fetchMultiplier + P - 1) \div P, MinPerPartition),
             MaxPerPartition)
    ELSE DefaultPerPartition

\* messagesPerPartition for limit L over P partitions (integer division)
PerPartition(L, P) ==
    IF L > 0
    THEN min(max((L * fetchMultiplier) \div P, MinPerPartition), MaxPerPartition)
    ELSE DefaultPerPartition

-----------------------------------------------------------------------------
(* Messages and the two comparators of the global sort *)

Msg(p, off, ts) == [partition |-> p, offset |-> off, timestamp |-> ts]

LessOldest(a, b) ==
    IF a.timestamp = b.timestamp
    THEN IF a.partition = b.partition
         THEN a.offset < b.offset
         ELSE a.partition < b.partition
    ELSE a.timestamp < b.timestamp

\* the newest comparator with the partition tie-break of the oldest one
LessNewestTieAscending(a, b) ==
    IF a.timestamp = b.timestamp
    THEN IF a.partition = b.partition
         THEN a.offset > b.offset
         ELSE a.partition < b.partition
    ELSE a.timestamp > b.timestamp

LessNewest(a, b) ==
    IF a.timestamp = b.timestamp
    THEN IF a.partition = b.partition
         THEN a.offset > b.offset
         ELSE a.partition > b.partition
    ELSE a.timestamp > b.timestamp

\* a comparator that ignores sortOrder
LessAlwaysOldest(order, a, b) == LessOldest(a, b)

\* the comparator FetchMessages passes to sort.Slice for sortOrder
Less(order, a, b) ==
    IF order = "oldest" THEN LessOldest(a, b) ELSE LessNewest(a, b)

RECURSIVE InsertSorted(_, _, _)
InsertSorted(order, x, s) ==
    IF s = <<>> THEN <<x>>
    ELSE IF Less(order, x, Head(s)) THEN <<x>> \o s
    ELSE <<Head(s)>> \o InsertSorted(order, x, Tail(s))

RECURSIVE SortSlice(_, _)
\* sort.Slice(messages, less): the permutation of s ordered by the comparator
SortSlice(order, s) ==
    IF s = <<>> THEN <<>>
    ELSE InsertSorted(order, Head(s), SortSlice(order, Tail(s)))

\* the final limit left out
ApplyLimitNever(L, s) == s

\* messages = messages[:limit] when limit > 0 and the slice is longer
ApplyLimit(L, s) ==
    IF L > 0 /\ Len(s) > L THEN SubSeq(s, 1, L) ELSE s

-----------------------------------------------------------------------------
(* The topic *)

Newest(l, p) == l[p].base + Len(l[p].recs)

Oldest(l, p) == l[p].base

\* the record of partition p at offset off
RecordAt(l, p, off) == Msg(p, off, l[p].recs[off - l[p].base + 1])

Partitions(l) == DOMAIN l

-----------------------------------------------------------------------------
(* The topics a call is made against *)

\* every log of at most MaxLen records with timestamps in any order
SmallLogs == UNION {[1..n -> Timestamps] : n \in 0..MaxLen}

SmallTopics ==
    UNION {[0..(P - 1) -> {[base |-> 0, recs |-> r] : r \in SmallLogs}] :
           P \in PartitionCounts}

Descending(n) == [i \in 1..n |-> n + 1 - i]

\* single partitions one record deeper than a per-partition budget
DeepTopics ==
    {(0 :> [base |-> b, recs |-> r]) :
        b \in {4},
        r \in {Descending(MinPerPartition + 1), Descending(DefaultPerPartition + 1)}}

\* two partitions whose records tie on the timestamp, within and across them
TieTopic ==
    (0 :> [base |-> 0, recs |-> <<1, 1>>]) @@
    (1 :> [base |-> 0, recs |-> <<1>>])

Topics == SmallTopics \cup {TieTopic} \cup DeepTopics

-----------------------------------------------------------------------------
(* FetchMessages: the caller *)

\* a worker goroutine before it runs: pc its position, start the offset its
\* consumption starts at, hi the newest offset it looked up, next the offset of
\* the next record it will receive, buf its partitionMessages, count its
\* messageCount, why the reason it stopped reading
Worker0 ==
    [pc |-> "init", start |-> 0, hi |-> 0, next |-> 0, buf |-> <<>>, count |-> 0,
     why |-> "none"]

\* no request has been served: the state main() leaves (part_008:33-35) with
\* the seeded credential file
NIL == [id |-> 0, endpoint |-> "none"]

NoSig == <<"", "", "", 0>>

\* a string that is not three dot-separated segments
NoToken ==
    [form |-> "garbage", alg |-> "", sub |-> "", hasExp |-> FALSE, exp |-> 0,
     sig |-> NoSig, pad |-> 0]

NoRequest ==
    [route |-> "none", scheme |-> "", tok |-> NoToken, now1 |-> 0, now2 |-> 0,
     param |-> "", status |-> 0, msg |-> "", user |-> "", rebindRan |-> FALSE,
     ran |-> FALSE, called |-> FALSE, panic |-> FALSE, built |-> 0,
     mwBuilt |-> FALSE, used |-> NIL, password |-> <<>>, current |-> <<>>,
     body |-> <<>>, args |-> <<>>, detail |-> <<>>,
     reply |-> {}]

Usernames == {"admin", "bob"}

NoErr == <<>>

\* no gateway call has been made on the handle
GwIdle ==
    [op |-> "none", pc |-> "idle", partition |-> 0, i |-> 0, h |-> 0,
     err |-> NoErr, faults |-> 0, producers |-> 0, sent |-> <<>>,
     requests |-> <<>>, dirty |-> FALSE, before |-> <<>>, again |-> FALSE,
     key |-> ""]

(* The credential file is text.  A text is a sequence of pieces: a piece is
   one of the four characters the CSV format gives a meaning to, or a run of
   other characters. *)
Specials == {"CR", "LF", "QUOTE", "COMMA"}

\* the field of a username or password without special characters
Field(str) == <<str>>

\* csv.Writer: a field with a special character is written between quotes,
\* each quote in it doubled; CR and LF are written as they are
NeedsQuotes(f) == \E i \in DOMAIN f : f[i] \in Specials

RECURSIVE Escaped(_)
Escaped(f) ==
    IF f = <<>> THEN <<>>
    ELSE (IF Head(f) = "QUOTE" THEN <<"QUOTE", "QUOTE">> ELSE <<Head(f)>>)
         \o Escaped(Tail(f))

WriteField(f) ==
    IF NeedsQuotes(f) THEN <<"QUOTE">> \o Escaped(f) \o <<"QUOTE">> ELSE f

RECURSIVE WriteFields(_)
WriteFields(r) ==
    IF Len(r) = 1 THEN WriteField(r[1]) \o <<"LF">>
    ELSE WriteField(Head(r)) \o <<"COMMA">> \o WriteFields(Tail(r))

\* csv.Writer.WriteAll: one line per record
RECURSIVE WriteAll(_)
WriteAll(records) ==
    IF records = <<>> THEN <<>>
    ELSE WriteFields(Head(records)) \o WriteAll(Tail(records))

\* csv.Reader.readLine: the CR of a CR LF at the end of a line is dropped,
\* inside a quoted field as well
RECURSIVE NormalizeLines(_)
NormalizeLines(text) ==
    IF text = <<>> THEN <<>>
    ELSE IF Len(text) >= 2 /\ text[1] = "CR" /\ text[2] = "LF"
         THEN NormalizeLines(Tail(text))
    ELSE <<Head(text)>> \o NormalizeLines(Tail(text))

\* csv.Reader: the records of a text, read piece by piece.  mode is where
\* the reader is: at the start of a field, in a bare field, in a quoted
\* field, or after a quote met inside a quoted field.
RECURSIVE ParseCSV(_, _, _, _, _)
ParseCSV(text, mode, field, record, records) ==
    LET c        == Head(text)
        rest     == Tail(text)
        endField == Append(record, field)
        failed   == [err |-> TRUE, records |-> <<>>]
    IN  IF text = <<>>
        THEN IF mode = "quoted" THEN failed
             ELSE IF mode = "start" /\ record = <<>>
             THEN [err |-> FALSE, records |-> records]
             ELSE [err |-> FALSE, records |-> Append(records, endField)]
        ELSE IF mode = "start"
        THEN IF c = "QUOTE" THEN ParseCSV(rest, "quoted", <<>>, record, records)
             ELSE IF c = "COMMA" THEN ParseCSV(rest, "start", <<>>, endField, records)
             ELSE IF c = "LF"
             THEN IF record = <<>>
                  THEN ParseCSV(rest, "start", <<>>, <<>>, records)
                  ELSE ParseCSV(rest, "start", <<>>, <<>>, Append(records, endField))
             ELSE ParseCSV(rest, "bare", <<c>>, record, records)
        ELSE IF mode = "bare"
        THEN IF c = "QUOTE" THEN failed
             ELSE IF c = "COMMA" THEN ParseCSV(rest, "start", <<>>, endField, records)
             ELSE IF c = "LF"
             THEN ParseCSV(rest, "start", <<>>, <<>>, Append(records, endField))
             ELSE ParseCSV(rest, "bare", Append(field, c), record, records)
        ELSE IF mode = "quoted"
        THEN IF c = "QUOTE" THEN ParseCSV(rest, "closing", field, record, records)
             ELSE ParseCSV(rest, "quoted", Append(field, c), record, records)
        ELSE IF c = "QUOTE"
             THEN ParseCSV(rest, "quoted", Append(field, c), record, records)
        ELSE IF c = "COMMA" THEN ParseCSV(rest, "start", <<>>, endField, records)
        ELSE IF c = "LF"
             THEN ParseCSV(rest, "start", <<>>, <<>>, Append(records, endField))
        ELSE failed

\* csv.Reader.ReadAll: every record must have as many fields as the first
ReadAll(text) ==
    LET parsed == ParseCSV(NormalizeLines(text), "start", <<>>, <<>>, <<>>)
    IN  IF parsed.err THEN parsed
        ELSE IF \E i \in DOMAIN parsed.records :
                    Len(parsed.records[i]) # Len(parsed.records[1])
        THEN [err |-> TRUE, records |-> <<>>]
        ELSE parsed

HeaderRow == <<Field("username"), Field("password")>>

\* data/users.csv as ensureUsersFile creates it: the header and admin,password
SeededUsers == WriteAll(<<HeaderRow, <<Field("admin"), Field("password")>>>>)

PipelineAtStart ==
    /\ clock = 0
    /\ token = NoToken
    /\ apiSlot = NIL
    /\ mwSlot = NIL
    /\ handles = 0
    /\ connected = <<>>
    /\ last = NoRequest
    /\ open = {}
    /\ gw = GwIdle
    /\ inflight = <<>>

InitFetch ==
    /\ PipelineAtStart
    /\ users = SeededUsers
    /\ log \in Topics
    /\ snap = log
    /\ fpc = "call"
    /\ fLimit = 0
    /\ fOrder = "newest"
    /\ fErr = "none"
    /\ budget = 0
    /\ ctxDone = FALSE
    /\ wk = [p \in DOMAIN log |-> Worker0]
    /\ chan = <<>>
    /\ chanClosed = FALSE
    /\ messages = <<>>
    /\ result = <<>>

\* lines 179-224: enumerate the partitions, create the consumer, compute the
\* per-partition budget and launch one worker per partition
FetchStart(L, order, partsOK, consumerOK) ==
    /\ fpc = "call"
    /\ fLimit' = L
    /\ fOrder' = order
    /\ snap' = log
    /\ IF ~partsOK
       THEN /\ fpc' = "returned"
            /\ fErr' = "partitions"
            /\ budget' = budget
       ELSE IF ~consumerOK
       THEN /\ fpc' = "returned"
            /\ fErr' = "consumer"
            /\ budget' = budget
       ELSE /\ fpc' = "running"
            /\ fErr' = "none"
            /\ budget' = PerPartition(L, Cardinality(Partitions(log)))
    /\ UNCHANGED <<log, ctxDone, wk, chan, chanClosed, messages, result, pipeVars>>

\* the 15 s deadline of the call's context passes
Deadline ==
    /\ fpc = "running"
    /\ ~ctxDone
    /\ ctxDone' = TRUE
    /\ UNCHANGED <<log, snap, fpc, fLimit, fOrder, fErr, budget,
                   wk, chan, chanClosed, messages, result, pipeVars>>

AllWorkersDone == \A p \in DOMAIN wk : wk[p].pc = "done"

\* a close that is left to the return of the call
CloseChanDeferred ==
    /\ fpc = "returned"
    /\ ~chanClosed
    /\ chanClosed' = TRUE
    /\ UNCHANGED <<log, snap, fpc, fLimit, fOrder, fErr, budget, ctxDone,
                   wk, chan, messages, result, pipeVars>>

\* a closer that does not wait for the workers
CloseChanEarly ==
    /\ fpc = "running"
    /\ ~chanClosed
    /\ chanClosed' = TRUE
    /\ UNCHANGED <<log, snap, fpc, fLimit, fOrder, fErr, budget, ctxDone,
                   wk, chan, messages, result, pipeVars>>

\* lines 227-230: wg.Wait(); close(messagesChan)
CloseChan ==
    /\ fpc = "running"
    /\ AllWorkersDone
    /\ ~chanClosed
    /\ chanClosed' = TRUE
    /\ UNCHANGED <<log, snap, fpc, fLimit, fOrder, fErr, budget, ctxDone,
                   wk, chan, messages, result, pipeVars>>

\* lines 233-236: one iteration of  for msg := range messagesChan
Drain ==
    /\ fpc = "running"
    /\ chan # <<>>
    /\ messages' = Append(messages, Head(chan))
    /\ chan' = Tail(chan)
    /\ UNCHANGED <<log, snap, fpc, fLimit, fOrder, fErr, budget, ctxDone,
                   wk, chanClosed, result, pipeVars>>

\* the worker failed: an offset lookup, ConsumePartition or the partition
\* consumer reported an error
Failed(w) == w.pc = "done" /\ w.why \in {"lookup", "consume", "error"}

\* a return that turns a partition's failure into a failure of the call
FetchReturnStrict ==
    /\ fpc = "running"
    /\ chanClosed
    /\ chan = <<>>
    /\ IF \E p \in DOMAIN wk : Failed(wk[p])
       THEN result' = <<>> /\ fErr' = "partition"
       ELSE result' = ApplyLimit(fLimit, SortSlice(fOrder, messages)) /\ fErr' = fErr
    /\ fpc' = "returned"
    /\ UNCHANGED <<log, snap, fLimit, fOrder, budget, ctxDone,
                   wk, chan, chanClosed, messages, pipeVars>>

\* lines 238-268: the range loop ends on the closed, drained channel; sort
\* globally, apply the limit, return
FetchReturn ==
    /\ fpc = "running"
    /\ chanClosed
    /\ chan = <<>>
    /\ result' = ApplyLimit(fLimit, SortSlice(fOrder, messages))
    /\ fpc' = "returned"
    /\ UNCHANGED <<log, snap, fLimit, fOrder, fErr, budget, ctxDone,
                   wk, chan, chanClosed, messages, pipeVars>>

-----------------------------------------------------------------------------
(* FetchMessages: the worker of partition p *)
(* fetchNewestFromPartition (lines 272-359) when sortOrder is not "oldest", *)
(* fetchOldestFromPartition (lines 362-441) when it is                      *)

othersUnchanged ==
    UNCHANGED <<log, snap, fpc, fLimit, fOrder, fErr, budget, ctxDone,
                chanClosed, messages, result, pipeVars>>

\* a worker that starts at the oldest offset in both modes
StartOffsetFromOldest(order, oldest, newest, limit) == oldest

\* startOffset: newest - limit, not below oldest, in newest mode; oldest otherwise
StartOffset(order, oldest, newest, limit) ==
    IF order = "oldest" THEN oldest
    ELSE IF newest - limit < oldest THEN oldest ELSE newest - limit

\* the two offset lookups, the emptiness test and ConsumePartition
WorkerBegin(p, offsetsOK, consumeOK) ==
    /\ fpc = "running"
    /\ wk[p].pc = "init"
    /\ LET newest == Newest(log, p)
           oldest == Oldest(log, p)
           start == StartOffset(fOrder, oldest, newest, budget)
       IN  wk' = [wk EXCEPT ![p] =
                IF ~offsetsOK THEN [@ EXCEPT !.pc = "done", !.why = "lookup"]
                ELSE IF newest <= oldest THEN [@ EXCEPT !.pc = "done", !.why = "empty"]
                ELSE IF ~consumeOK THEN [@ EXCEPT !.pc = "done", !.why = "consume"]
                ELSE [@ EXCEPT !.pc = "reading", !.start = start, !.hi = newest,
                               !.next = start]]
    /\ UNCHANGED chan
    /\ othersUnchanged

\* case msg := <-pc.Messages(): the next record of the partition arrives.
\* Newest mode appends it to partitionMessages. Oldest mode sends it on the
\* channel at once (or gives up when the context is done) and stops when
\* messageCount reaches the budget.
WorkerReceive(p) ==
    /\ fpc = "running"
    /\ wk[p].pc = "reading"
    /\ wk[p].next < Newest(log, p)
    /\ LET m == RecordAt(log, p, wk[p].next)
       IN  IF fOrder = "oldest"
           THEN \/ /\ Len(chan) < Slots
                   /\ chan' = Append(chan, m)
                   /\ wk' = [wk EXCEPT ![p] =
                        IF @.count + 1 >= budget
                        THEN [@ EXCEPT !.next = @ + 1, !.count = @ + 1,
                                       !.pc = "done", !.why = "budget"]
                        ELSE [@ EXCEPT !.next = @ + 1, !.count = @ + 1]]
                \/ /\ ctxDone
                   /\ chan' = chan
                   /\ wk' = [wk EXCEPT ![p] =
                                [@ EXCEPT !.next = @ + 1, !.pc = "done",
                                          !.why = "deadline"]]
           ELSE /\ chan' = chan
                /\ wk' = [wk EXCEPT ![p] =
                            [@ EXCEPT !.next = @ + 1, !.buf = Append(@, m)]]
    /\ othersUnchanged

\* case <-ctx.Done() of the read loop: return; partitionMessages is dropped
WorkerReadDeadline(p) ==
    /\ fpc = "running"
    /\ wk[p].pc = "reading"
    /\ ctxDone
    /\ wk' = [wk EXCEPT ![p] = [@ EXCEPT !.pc = "done", !.why = "deadline"]]
    /\ UNCHANGED chan
    /\ othersUnchanged

\* where the read loop goes on the idle timer or a consumer error: newest mode
\* jumps to sendMessages, oldest mode returns
AfterRead(w, order, reason) ==
    IF order = "oldest" \/ w.buf = <<>>
    THEN [w EXCEPT !.pc = "done", !.why = reason]
    ELSE [w EXCEPT !.pc = "sending", !.why = reason]

\* case <-timeout.C: no record arrived for 3 s
WorkerIdle(p) ==
    /\ fpc = "running"
    /\ wk[p].pc = "reading"
    /\ wk' = [wk EXCEPT ![p] = AfterRead(@, fOrder, "idle")]
    /\ UNCHANGED chan
    /\ othersUnchanged

\* case err := <-pc.Errors(): the partition consumer reports an error
WorkerError(p) ==
    /\ fpc = "running"
    /\ wk[p].pc = "reading"
    /\ wk' = [wk EXCEPT ![p] = AfterRead(@, fOrder, "error")]
    /\ UNCHANGED chan
    /\ othersUnchanged

\* case msg := <-pc.Messages() with msg == nil: the partition's message
\* stream is closed.  Oldest mode returns.  In newest mode the break leaves
\* the select only and the loop goes round again, so nothing changes until
\* the idle timer or the deadline ends the reading.
WorkerStreamClosed(p) ==
    /\ fpc = "running"
    /\ wk[p].pc = "reading"
    /\ fOrder = "oldest"
    /\ wk' = [wk EXCEPT ![p] = [@ EXCEPT !.pc = "done", !.why = "closed"]]
    /\ UNCHANGED chan
    /\ othersUnchanged

\* sendMessages (newest mode): send the next buffered message, or return
\* when the context is done
WorkerSend(p) ==
    /\ fpc = "running"
    /\ wk[p].pc = "sending"
    /\ \/ /\ Len(chan) < Slots
          /\ chan' = Append(chan, Head(wk[p].buf))
          /\ wk' = [wk EXCEPT ![p] =
                IF Tail(@.buf) = <<>>
                THEN [@ EXCEPT !.buf = <<>>, !.pc = "done"]
                ELSE [@ EXCEPT !.buf = Tail(@)]]
       \/ /\ ctxDone
          /\ chan' = chan
          /\ wk' = [wk EXCEPT ![p] = [@ EXCEPT !.pc = "done", !.why = "deadline"]]
    /\ othersUnchanged

-----------------------------------------------------------------------------

NextFetch ==
    \/ \E L \in Limits, order \in Orders, partsOK \in BOOLEAN, consumerOK \in BOOLEAN :
          FetchStart(L, order, partsOK, consumerOK)
    \/ Deadline
    \/ \E p \in Partitions(log), offsetsOK \in BOOLEAN, consumeOK \in BOOLEAN :
          WorkerBegin(p, offsetsOK, consumeOK)
    \/ \E p \in Partitions(log) : WorkerReceive(p)
    \/ \E p \in Partitions(log) : WorkerReadDeadline(p)
    \/ \E p \in Partitions(log) : WorkerIdle(p)
    \/ \E p \in Partitions(log) : WorkerError(p)
    \/ \E p \in Partitions(log) : WorkerSend(p)
    \/ CloseChan
    \/ Drain
    \/ FetchReturn

SpecFetch == InitFetch /\ [][NextFetch]_vars

-----------------------------------------------------------------------------
(* Properties of the message reader *)

Range(s) == {s[i] : i \in DOMAIN s}

\* every record the topic l holds, as a message
AllRecords(l) ==
    UNION {{RecordAt(l, p, off) : off \in Oldest(l, p)..(Newest(l, p) - 1)} :
           p \in Partitions(l)}

\* a comes strictly before b in the documented composite order: timestamp,
\* then partition, then offset, descending for newest and ascending for oldest
KeyBefore(order, a, b) ==
    IF order = "oldest"
    THEN \/ a.timestamp < b.timestamp
         \/ a.timestamp = b.timestamp /\ a.partition < b.partition
         \/ a.timestamp = b.timestamp /\ a.partition = b.partition
                                      /\ a.offset < b.offset
    ELSE \/ a.timestamp > b.timestamp
         \/ a.timestamp = b.timestamp /\ a.partition > b.partition
         \/ a.timestamp = b.timestamp /\ a.partition = b.partition
                                      /\ a.offset > b.offset

\* res is exactly the first min(L, |S|) elements (all of them when L = 0) of
\* the set S laid out in the composite order
IsSortedPrefix(res, S, L, order) ==
    /\ Range(res) \subseteq S
    /\ Len(res) = IF L > 0 THEN min(L, Cardinality(S)) ELSE Cardinality(S)
    /\ \A i \in 1..(Len(res) - 1) : KeyBefore(order, res[i], res[i + 1])
    /\ \A m \in S \ Range(res) : \A i \in DOMAIN res : KeyBefore(order, res[i], m)

Returned == fpc = "returned" /\ fErr = "none"

\* the worker received every record of its partition before it stopped
\* reading, and the deadline did not stop it
Whole(w) ==
    /\ w.pc = "done"
    /\ \/ w.why = "empty"
       \/ w.why \in {"budget", "idle", "error"} /\ w.next >= w.hi

WithinBudget == \A p \in Partitions(snap) : Len(snap[p].recs) <= budget

C2_AtMostLimit ==
    (Returned /\ fLimit > 0) => Len(result) <= fLimit

\* more messages than the limit were collected and the limit was applied
C2_Witness ==
    /\ Returned /\ fLimit > 0
    /\ Len(messages) > fLimit
    /\ Len(result) = fLimit

\* C3: adjacent messages of the returned list are strictly ordered by the
\* composite key of the sort order, and the list holds exactly the collected
\* messages up to the limit, so it is determined by the collected set.
C3_SortedByCompositeKey ==
    Returned => IsSortedPrefix(result, Range(messages), fLimit, fOrder)

\* a returned list with a tie on the timestamp across two partitions and a tie
\* within one partition
C3_Witness ==
    /\ Returned
    /\ \E i \in 1..(Len(result) - 1) :
          /\ result[i].timestamp = result[i + 1].timestamp
          /\ result[i].partition # result[i + 1].partition
    /\ \E i \in 1..(Len(result) - 1) :
          /\ result[i].timestamp = result[i + 1].timestamp
          /\ result[i].partition = result[i + 1].partition

\* C4 as stated: a call with L = 0 returns every record of the topic in global
\* sort order (given that no worker was cut short by an error or a timer).
C4_UnlimitedIsExact ==
    (Returned /\ fLimit = 0 /\ \A p \in DOMAIN wk :
            wk[p].pc = "done" /\ wk[p].why \in {"empty", "budget", "idle"}
                              /\ (wk[p].why = "idle" => wk[p].next >= wk[p].hi))
        => IsSortedPrefix(result, AllRecords(snap), 0, fOrder)

Window(p) == {RecordAt(snap, p, off) : off \in wk[p].start..(wk[p].hi - 1)}

TokenTTL == 86400   \* time.Hour * 24, in seconds

\* getJWTSecret: JWT_SECRET or the default; api and middleware read the same
\* environment, so the issuer and the gate hold the same key
Secret == "itiswhatitis"

HMACAlgs == {"HS256", "HS384", "HS512"}

\* an HMAC over the signing string (header and claims segments), taken as
\* collision free
MAC(key, alg, sub, hasExp, exp) == <<key, alg, sub, IF hasExp THEN exp ELSE 0 - 1>>

\* SignedString: the signature segment is the unpadded base64url text of the
\* MAC; its last character carries unused low bits (pad), which the encoder
\* writes as 0
SignedString(key, alg, sub, hasExp, exp) ==
    [form |-> "jwt", alg |-> alg, sub |-> sub, hasExp |-> hasExp, exp |-> exp,
     sig |-> MAC(key, alg, sub, hasExp, exp), pad |-> 0]

\* Login's token: sub = username, exp = now + 24 h, HS256
IssueToken(u, now) == SignedString(Secret, "HS256", u, TRUE, now + TokenTTL)

\* the parser decodes the signature segment with the non-strict raw base64url
\* decoder: the unused low bits of the last character are dropped
DecodeSegment(tok) == tok.sig

\* jwt.Parse with the gate's key function: segments, signing method,
\* signature, then the registered claims (exp, when present, against now)
ParseToken(tok, now) ==
    IF tok.form # "jwt" THEN "malformed"
    ELSE IF tok.alg \notin HMACAlgs THEN "unverifiable"
    ELSE IF DecodeSegment(tok) # MAC(Secret, tok.alg, tok.sub, tok.hasExp, tok.exp)
         THEN "signature"
    ELSE IF tok.hasExp /\ ~(now < tok.exp) THEN "expired"
    ELSE "ok"

Abort(msg) == [pass |-> FALSE, status |-> 401, msg |-> msg, user |-> "", reads |-> 1]

\* a gate that lets a request through whatever jwt.Parse answers
JWTMiddlewareNoParse(scheme, tok, now1, now2) ==
    IF scheme # "Bearer" THEN Abort("Missing or malformed token")
    ELSE IF tok.hasExp /\ now2 > tok.exp
         THEN [Abort("Token expired") EXCEPT !.reads = 2]
    ELSE [pass |-> TRUE, status |-> 0, msg |-> "", user |-> tok.sub, reads |-> 2]

\* the authentication gate; now1 is the clock jwt.Parse reads and now2 the
\* clock the gate reads afterwards.  The claims of a parsed token are always
\* a MapClaims, so the "Invalid token claims" branch is never taken.
JWTMiddleware(scheme, tok, now1, now2) ==
    IF scheme # "Bearer" THEN Abort("Missing or malformed token")
    ELSE IF ParseToken(tok, now1) # "ok" THEN Abort("Invalid token")
    ELSE IF tok.hasExp /\ now2 > tok.exp
         THEN [Abort("Token expired") EXCEPT !.reads = 2]
    ELSE [pass |-> TRUE, status |-> 0, msg |-> "", user |-> tok.sub, reads |-> 2]

Passwords == {Field("password"), Field("hunter2")}

OtherUser(u) == IF u = "admin" THEN "bob" ELSE "admin"

\* what a client can put in the Authorization header, given the token the
\* issuer last handed out
Credentials ==
    {"none", "basic", "garbage", "issued", "alt-sub", "alt-exp", "alt-alg",
     "alt-sig", "alt-pad", "foreign", "no-exp"}

Scheme(label) ==
    IF label = "none" THEN "" ELSE IF label = "basic" THEN "Basic" ELSE "Bearer"

Presented(label, issued) ==
    CASE label = "issued"  -> issued
      [] label = "alt-sub" -> [issued EXCEPT !.sub = OtherUser(issued.sub)]
      [] label = "alt-exp" -> [issued EXCEPT !.exp = issued.exp + TokenTTL]
      [] label = "alt-alg" -> [issued EXCEPT !.alg = "none"]
      [] label = "alt-sig" -> [issued EXCEPT !.sig = NoSig]
      [] label = "alt-pad" -> [issued EXCEPT !.pad = 1]
      [] label = "foreign" -> SignedString("another key", "HS256", "admin", TRUE,
                                           TokenTTL + TokenTTL)
      [] label = "no-exp"  -> SignedString(Secret, "HS512", "admin", FALSE, 0)
      [] OTHER             -> NoToken

\* a file an operator has added a second user to
TwoUsers ==
    WriteAll(<<HeaderRow, <<Field("admin"), Field("password")>>,
               <<Field("bob"), Field("hunter2")>>>>)

\* GetUser: reads the whole file and returns the first record after the
\* header whose username matches.  A file without any record makes
\* records[1:] panic.
GetUser(file, username, readOK) ==
    LET read == ReadAll(file)
        recs == read.records
        hits == {i \in 2..Len(recs) : recs[i][1] = Field(username)}
    IN  IF ~readOK \/ read.err THEN [err |-> "io", password |-> <<>>]
        ELSE IF recs = <<>> THEN [err |-> "panic", password |-> <<>>]
        ELSE IF hits = {} THEN [err |-> "user not found", password |-> <<>>]
        ELSE [err |-> "none",
              password |-> recs[CHOOSE i \in hits : \A j \in hits : i <= j][2]]

\* an UpdateUserPassword that writes back the header and the record it
\* changed, and no other
UpdateUserPasswordAlone(file, username, newPassword, io) ==
    LET read  == ReadAll(file)
        recs  == read.records
        hits  == {i \in 2..Len(recs) : recs[i][1] = Field(username)}
        first == CHOOSE i \in hits : \A j \in hits : i <= j
    IN  IF io = "read-fails" \/ read.err THEN [err |-> "io", file |-> file]
        ELSE IF hits = {} THEN [err |-> "user not found", file |-> file]
        ELSE IF io = "create-fails" THEN [err |-> "io", file |-> file]
        ELSE IF io \in {"write-fails", "crash"} THEN [err |-> "io", file |-> <<>>]
        ELSE [err |-> "none",
              file |-> WriteAll(<<recs[1], <<recs[first][1], newPassword>>>>)]

\* UpdateUserPassword: reads the records, replaces the password of the first
\* record of the user and rewrites the file in place.  io = "create-fails"
\* leaves the file as it was; io = "write-fails" leaves the file os.Create
\* truncated; io = "crash" is the process dying after os.Create and before
\* the buffered records are flushed.
UpdateUserPassword(file, username, newPassword, io) ==
    LET read  == ReadAll(file)
        recs  == read.records
        hits  == {i \in 2..Len(recs) : recs[i][1] = Field(username)}
        first == CHOOSE i \in hits : \A j \in hits : i <= j
    IN  IF io = "read-fails" \/ read.err THEN [err |-> "io", file |-> file]
        ELSE IF hits = {} THEN [err |-> "user not found", file |-> file]
        ELSE IF io = "create-fails" THEN [err |-> "io", file |-> file]
        ELSE IF io \in {"write-fails", "crash"} THEN [err |-> "io", file |-> <<>>]
        ELSE [err |-> "none",
              file |-> WriteAll([recs EXCEPT ![first][2] = newPassword])]

Endpoints == {"A", "B"}

Params == {""} \cup Endpoints

\* the handle NewKafkaClient returns for an endpoint; id tells apart the
\* handles built during one run of the server
NewKafkaClient(endpoint, id) == [id |-> id, endpoint |-> endpoint]

\* the rebind gate: stores a fresh handle in the middleware package's
\* kafkaService when the parameter is non-empty and construction succeeds
BootstrapMiddleware(param, ok, slot, n) ==
    IF param # "" /\ ok
    THEN [slot |-> NewKafkaClient(param, n + 1), built |-> 1]
    ELSE [slot |-> slot, built |-> 0]

\* a check-connection handler that answers without storing the handle
CheckConnectionKeepsSlot(param, slot, n, newOK, pingOK) ==
    IF param = ""
    THEN [status |-> 400, msg |-> "bootstrapServer parameter is required",
          slot |-> slot, built |-> 0, used |-> NIL]
    ELSE IF ~newOK
    THEN [status |-> 500, msg |-> "cluster error", slot |-> slot, built |-> 0,
          used |-> NIL]
    ELSE IF ~pingOK
    THEN [status |-> 500, msg |-> "cluster error", slot |-> slot, built |-> 1,
          used |-> NewKafkaClient(param, n + 1)]
    ELSE [status |-> 200, msg |-> "connected", slot |-> slot,
          built |-> 1, used |-> NewKafkaClient(param, n + 1)]

\* a check-connection handler that installs the handle before it has checked
\* the connection
CheckConnectionInstallsFirst(param, slot, n, newOK, pingOK) ==
    IF param = ""
    THEN [status |-> 400, msg |-> "bootstrapServer parameter is required",
          slot |-> slot, built |-> 0, used |-> NIL]
    ELSE IF ~newOK
    THEN [status |-> 500, msg |-> "cluster error", slot |-> slot, built |-> 0,
          used |-> NIL]
    ELSE IF ~pingOK
    THEN [status |-> 500, msg |-> "cluster error",
          slot |-> NewKafkaClient(param, n + 1), built |-> 1,
          used |-> NewKafkaClient(param, n + 1)]
    ELSE [status |-> 200, msg |-> "connected", slot |-> NewKafkaClient(param, n + 1),
          built |-> 1, used |-> NewKafkaClient(param, n + 1)]

\* api.CheckConnection: builds a handle of its own, pings the cluster through
\* it and stores it in the api package's kafkaService
CheckConnection(param, slot, n, newOK, pingOK) ==
    IF param = ""
    THEN [status |-> 400, msg |-> "bootstrapServer parameter is required",
          slot |-> slot, built |-> 0, used |-> NIL]
    ELSE IF ~newOK
    THEN [status |-> 500, msg |-> "cluster error", slot |-> slot, built |-> 0,
          used |-> NIL]
    ELSE IF ~pingOK
    THEN [status |-> 500, msg |-> "cluster error", slot |-> slot, built |-> 1,
          used |-> NewKafkaClient(param, n + 1)]
    ELSE [status |-> 200, msg |-> "connected", slot |-> NewKafkaClient(param, n + 1),
          built |-> 1, used |-> NewKafkaClient(param, n + 1)]

\* the cluster-scoped routes main registers behind the two gates
ClusterRoutes ==
    {"topics", "messages", "partitions", "produce", "clear-messages",
     "create-topic", "consumers", "brokers", "delete-topic"}

\* the routes whose handler validates a request body before it calls the gateway
BodyRoutes == {"produce", "create-topic"}

ProtectedRoutes == ClusterRoutes \cup {"check-connection", "change-password"}

Outcomes == {"ok", "invalid", "error"}

\* a cluster-scoped handler: calls the gateway through the api package's
\* kafkaService.  The call on the nil interface main installed panics, and
\* gin's recovery answers 500.
ClusterHandler(route, slot, outcome) ==
    IF route \in BodyRoutes /\ outcome = "invalid"
    THEN [status |-> 400, msg |-> "Invalid request body", called |-> FALSE,
          panic |-> FALSE, used |-> NIL]
    ELSE IF slot = NIL
    THEN [status |-> 500, msg |-> "", called |-> TRUE, panic |-> TRUE, used |-> NIL]
    ELSE IF outcome = "error"
    THEN [status |-> 500, msg |-> "cluster error", called |-> TRUE,
          panic |-> FALSE, used |-> slot]
    ELSE [status |-> 200, msg |-> "", called |-> TRUE, panic |-> FALSE,
          used |-> slot]

\* the conversions of Client.CreateTopic.  int16 keeps the low 16 bits; every
\* partition count of a request modelled here lies within 32 bits, where
\* int32 keeps the value.
Int16(n) == ((n + 32768) % 65536) - 32768

Int32(n) == n

\* Client.CreateTopic: the topic detail handed to the cluster admin, and the
\* admin's answer
ClientCreateTopic(partitions, replicationFactor, outcome) ==
    [detail |-> <<Int32(partitions), Int16(replicationFactor)>>,
     err    |-> outcome = "error"]

\* a create-topic handler that hands every bound body to the gateway
CreateTopicNoValidation(slot, bodyOK, partitions, replicationFactor, outcome) ==
    LET call == ClientCreateTopic(partitions, replicationFactor, outcome)
        sent == <<partitions, replicationFactor>>
    IN  IF ~bodyOK
        THEN [status |-> 400, msg |-> "Invalid request body", called |-> FALSE,
              panic |-> FALSE, used |-> NIL, args |-> <<>>, detail |-> <<>>]
        ELSE IF slot = NIL
        THEN [status |-> 500, msg |-> "", called |-> TRUE, panic |-> TRUE,
              used |-> NIL, args |-> sent, detail |-> <<>>]
        ELSE IF call.err
        THEN [status |-> 500, msg |-> "cluster error", called |-> TRUE,
              panic |-> FALSE, used |-> slot, args |-> sent, detail |-> call.detail]
        ELSE [status |-> 200, msg |-> "", called |-> TRUE, panic |-> FALSE,
              used |-> slot, args |-> sent, detail |-> call.detail]

\* api.CreateTopic: the body is bound, both numbers are validated, and only
\* then the gateway is called
CreateTopic(slot, bodyOK, partitions, replicationFactor, outcome) ==
    LET call == ClientCreateTopic(partitions, replicationFactor, outcome)
        sent == <<partitions, replicationFactor>>
    IN  IF ~bodyOK
        THEN [status |-> 400, msg |-> "Invalid request body", called |-> FALSE,
              panic |-> FALSE, used |-> NIL, args |-> <<>>, detail |-> <<>>]
        ELSE IF partitions < 1
        THEN [status |-> 400, msg |-> "Number of partitions must be at least 1",
              called |-> FALSE, panic |-> FALSE, used |-> NIL, args |-> <<>>,
              detail |-> <<>>]
        ELSE IF replicationFactor < 1
        THEN [status |-> 400, msg |-> "Replication factor must be at least 1",
              called |-> FALSE, panic |-> FALSE, used |-> NIL, args |-> <<>>,
              detail |-> <<>>]
        ELSE IF slot = NIL
        THEN [status |-> 500, msg |-> "", called |-> TRUE, panic |-> TRUE,
              used |-> NIL, args |-> sent, detail |-> <<>>]
        ELSE IF call.err
        THEN [status |-> 500, msg |-> "cluster error", called |-> TRUE,
              panic |-> FALSE, used |-> slot, args |-> sent, detail |-> call.detail]
        ELSE [status |-> 200, msg |-> "", called |-> TRUE, panic |-> FALSE,
              used |-> slot, args |-> sent, detail |-> call.detail]

\* api.ChangePassword for the subject the gate attached to the request
ChangePassword(file, user, bodyOK, current, new, io) ==
    LET u == GetUser(file, user, io # "read-fails")
        w == UpdateUserPassword(file, user, new, io)
    IN  IF ~bodyOK THEN [status |-> 400, msg |-> "Invalid request body", file |-> file]
        ELSE IF u.err = "panic" THEN [status |-> 500, msg |-> "", file |-> file]
        ELSE IF u.err # "none" THEN [status |-> 401, msg |-> "User not found", file |-> file]
        ELSE IF u.password # current
        THEN [status |-> 401, msg |-> "Current password is incorrect", file |-> file]
        ELSE IF w.err # "none"
        THEN [status |-> 500, msg |-> "Failed to update password", file |-> w.file]
        ELSE [status |-> 200, msg |-> "Password changed successfully", file |-> w.file]

MaxHandles == 3

\* the moments the clock is observed at: around the expiry of a token issued
\* at 0
Times == {TokenTTL - 1, TokenTTL, TokenTTL + 1}

Moments == {t \in Times : t > clock} \cup {clock}

GateOf(label, now2) ==
    JWTMiddleware(Scheme(label), Presented(label, token), clock, now2)

\* a request as it arrives: nothing has run yet
Arrived(route, label, param, now2) ==
    [NoRequest EXCEPT !.route = route, !.scheme = Scheme(label),
                      !.tok = Presented(label, token), !.now1 = clock,
                      !.now2 = now2, !.param = param]

\* time passes between two requests
Tick(t) ==
    /\ t \in Times
    /\ t > clock
    /\ clock' = t
    /\ UNCHANGED <<inflight, users, token, apiSlot, mwSlot, handles, connected, last>>
    /\ UNCHANGED <<open, gw, fetchVars>>

\* a login handler that tells an unknown username from a wrong password
LoginNamesTheFailure(bodyOK, username, password, readOK) ==
    LET u == GetUser(users, username, readOK)
        in == [NoRequest EXCEPT !.route = "login", !.now1 = clock, !.now2 = clock,
                                !.ran = TRUE, !.user = username,
                                !.password = password]
    IN  /\ last' =
            IF ~bodyOK THEN [in EXCEPT !.status = 400, !.msg = "Invalid request body"]
            ELSE IF u.err = "panic" THEN [in EXCEPT !.status = 500, !.panic = TRUE]
            ELSE IF u.err # "none"
            THEN [in EXCEPT !.status = 401, !.msg = "User not found"]
            ELSE IF u.password # password
            THEN [in EXCEPT !.status = 401, !.msg = "Invalid credentials"]
            ELSE [in EXCEPT !.status = 200, !.tok = IssueToken(username, clock)]
        /\ token' =
            IF bodyOK /\ u.err = "none" /\ u.password = password
            THEN IssueToken(username, clock)
            ELSE token
        /\ UNCHANGED <<inflight, clock, users, apiSlot, mwSlot, handles, connected>>
        /\ UNCHANGED <<open, gw, fetchVars>>

\* POST /api/login, outside the gated group
Login(bodyOK, username, password, readOK) ==
    LET u == GetUser(users, username, readOK)
        in == [NoRequest EXCEPT !.route = "login", !.now1 = clock, !.now2 = clock,
                                !.ran = TRUE, !.user = username,
                                !.password = password]
    IN  /\ last' =
            IF ~bodyOK THEN [in EXCEPT !.status = 400, !.msg = "Invalid request body"]
            ELSE IF u.err = "panic" THEN [in EXCEPT !.status = 500, !.panic = TRUE]
            ELSE IF u.err # "none" \/ u.password # password
            THEN [in EXCEPT !.status = 401, !.msg = "Invalid credentials"]
            ELSE [in EXCEPT !.status = 200, !.tok = IssueToken(username, clock)]
        /\ token' =
            IF bodyOK /\ u.err = "none" /\ u.password = password
            THEN IssueToken(username, clock)
            ELSE token
        /\ UNCHANGED <<inflight, clock, users, apiSlot, mwSlot, handles, connected>>
        /\ UNCHANGED <<open, gw, fetchVars>>

\* a server whose rebind gate is registered before the authentication gate
UnauthorizedAfterRebind(route, label, param, now2) ==
    LET g  == GateOf(label, now2)
        rb == BootstrapMiddleware(param, TRUE, mwSlot, handles)
    IN  /\ ~g.pass
        /\ g.reads = 1 => now2 = clock
        /\ handles + rb.built <= MaxHandles
        /\ last' = [Arrived(route, label, param, now2) EXCEPT
                        !.status = g.status, !.msg = g.msg]
        /\ clock' = now2
        /\ mwSlot' = rb.slot
        /\ handles' = handles + rb.built
        /\ open' = open \cup ((handles + 1)..(handles + rb.built))
        /\ UNCHANGED <<inflight, users, token, apiSlot, connected>>
        /\ UNCHANGED <<gw, fetchVars>>

\* a request to a gated route that the authentication gate aborts
Unauthorized(route, label, param, now2) ==
    LET g == GateOf(label, now2)
    IN  /\ ~g.pass
        /\ g.reads = 1 => now2 = clock
        /\ last' = [Arrived(route, label, param, now2) EXCEPT
                        !.status = g.status, !.msg = g.msg]
        /\ clock' = now2
        /\ UNCHANGED <<inflight, users, token, apiSlot, mwSlot, handles, connected>>
        /\ UNCHANGED <<open, gw, fetchVars>>

\* GET /api/check-connection through both gates
CheckConnectionRequest(label, param, now2, mwOK, newOK, pingOK) ==
    LET g  == GateOf(label, now2)
        rb == BootstrapMiddleware(param, mwOK, mwSlot, handles)
        h  == CheckConnection(param, apiSlot, handles + rb.built, newOK, pingOK)
    IN  /\ g.pass
        /\ param = "" => mwOK /\ newOK
        /\ ~newOK \/ param = "" => pingOK
        /\ handles + rb.built + h.built <= MaxHandles
        /\ clock' = now2
        /\ mwSlot' = rb.slot
        /\ apiSlot' = h.slot
        /\ handles' = handles + rb.built + h.built
        /\ connected' = IF h.status = 200 THEN Append(connected, param) ELSE connected
        /\ last' = [Arrived("check-connection", label, param, now2) EXCEPT
                        !.status = h.status, !.msg = h.msg, !.user = g.user,
                        !.rebindRan = TRUE, !.ran = TRUE, !.called = (h.built = 1),
                        !.built = rb.built + h.built, !.mwBuilt = (rb.built = 1),
                        !.used = h.used]
        /\ open' = open \cup ((handles + 1)..(handles + rb.built + h.built))
        /\ UNCHANGED <<inflight, users, token>>
        /\ UNCHANGED <<gw, fetchVars>>

\* a cluster-scoped request through both gates
ClusterRequest(route, label, param, now2, mwOK, outcome) ==
    LET g  == GateOf(label, now2)
        rb == BootstrapMiddleware(param, mwOK, mwSlot, handles)
        h  == ClusterHandler(route, apiSlot, outcome)
    IN  /\ g.pass
        /\ route \in ClusterRoutes
        /\ param = "" => mwOK
        /\ outcome = "invalid" => route \in BodyRoutes
        /\ handles + rb.built <= MaxHandles
        /\ clock' = now2
        /\ mwSlot' = rb.slot
        /\ handles' = handles + rb.built
        /\ last' = [Arrived(route, label, param, now2) EXCEPT
                        !.status = h.status, !.msg = h.msg, !.user = g.user,
                        !.rebindRan = TRUE, !.ran = TRUE, !.called = h.called,
                        !.panic = h.panic, !.built = rb.built,
                        !.mwBuilt = (rb.built = 1), !.used = h.used]
        /\ open' = open \cup ((handles + 1)..(handles + rb.built))
        /\ UNCHANGED <<inflight, users, token, apiSlot, connected>>
        /\ UNCHANGED <<gw, fetchVars>>

\* POST /api/topics through both gates.  A body that does not bind carries
\* no numbers.
CreateTopicRequest(label, param, now2, mwOK, bodyOK, partitions, replicas, outcome) ==
    LET g  == GateOf(label, now2)
        rb == BootstrapMiddleware(param, mwOK, mwSlot, handles)
        h  == CreateTopic(apiSlot, bodyOK, partitions, replicas, outcome)
    IN  /\ g.pass
        /\ param = "" => mwOK
        /\ ~bodyOK => partitions = 0 /\ replicas = 0 /\ outcome = "ok"
        /\ handles + rb.built <= MaxHandles
        /\ clock' = now2
        /\ mwSlot' = rb.slot
        /\ handles' = handles + rb.built
        /\ last' = [Arrived("create-topic", label, param, now2) EXCEPT
                        !.status = h.status, !.msg = h.msg, !.user = g.user,
                        !.rebindRan = TRUE, !.ran = TRUE, !.called = h.called,
                        !.panic = h.panic, !.built = rb.built,
                        !.mwBuilt = (rb.built = 1), !.used = h.used,
                        !.body = IF bodyOK THEN <<partitions, replicas>>
                                 ELSE <<>>,
                        !.args = h.args, !.detail = h.detail]
        /\ open' = open \cup ((handles + 1)..(handles + rb.built))
        /\ UNCHANGED <<inflight, users, token, apiSlot, connected>>
        /\ UNCHANGED <<gw, fetchVars>>

\* POST /api/change-password through both gates
ChangePasswordRequest(label, param, now2, mwOK, bodyOK, current, new, io) ==
    LET g  == GateOf(label, now2)
        rb == BootstrapMiddleware(param, mwOK, mwSlot, handles)
        h  == ChangePassword(users, g.user, bodyOK, current, new, io)
    IN  /\ g.pass
        /\ param = "" => mwOK
        /\ ~bodyOK => io = "ok"
        /\ handles + rb.built <= MaxHandles
        /\ clock' = now2
        /\ mwSlot' = rb.slot
        /\ handles' = handles + rb.built
        /\ users' = h.file
        /\ last' = [Arrived("change-password", label, param, now2) EXCEPT
                        !.status = h.status, !.msg = h.msg, !.user = g.user,
                        !.rebindRan = TRUE, !.ran = TRUE, !.built = rb.built,
                        !.mwBuilt = (rb.built = 1),
                        !.current = current, !.password = new]
        /\ open' = open \cup ((handles + 1)..(handles + rb.built))
        /\ UNCHANGED <<inflight, token, apiSlot, connected>>
        /\ UNCHANGED <<gw, fetchVars>>

\* POST /api/change-password by a process that dies inside
\* UpdateUserPassword, after os.Create and before the records reach the
\* file; the server is then started again
ChangePasswordCrash(label, param, now2, mwOK, current, new) ==
    LET g  == GateOf(label, now2)
        u  == GetUser(users, g.user, TRUE)
        w  == UpdateUserPassword(users, g.user, new, "crash")
    IN  /\ g.pass
        /\ param = "" => mwOK
        /\ u.err = "none"
        /\ u.password = current
        /\ clock' = now2
        /\ users' = w.file
        /\ mwSlot' = NIL
        /\ apiSlot' = NIL
        /\ open' = {}
        /\ connected' = <<>>
        /\ handles' = handles
        /\ last' = [Arrived("change-password", label, param, now2) EXCEPT
                        !.user = g.user, !.rebindRan = TRUE, !.ran = TRUE,
                        !.current = current, !.password = new]
        /\ UNCHANGED <<inflight, token, gw, fetchVars>>

\* the fetch machinery at rest: no FetchMessages call is in progress
FetchAtRest ==
    /\ log = <<>>
    /\ snap = <<>>
    /\ fpc = "idle"
    /\ fLimit = 0
    /\ fOrder = "newest"
    /\ fErr = "none"
    /\ budget = 0
    /\ ctxDone = FALSE
    /\ wk = <<>>
    /\ chan = <<>>
    /\ chanClosed = FALSE
    /\ messages = <<>>
    /\ result = <<>>

Init ==
    /\ PipelineAtStart
    /\ users = SeededUsers
    /\ FetchAtRest

\* the operator's session: a login, connections to clusters and work on
\* them, with the issued token or without one
OperatorRoutes == {"topics", "produce", "delete-topic"}

\* the numbers of a create-topic body
PartitionNumbers == {0, 1}

ReplicationFactors == {0, 1, 65536}

Next ==
    \/ \E pw \in Passwords : Login(TRUE, "admin", pw, TRUE)
    \/ \E r \in OperatorRoutes \cup {"check-connection"}, p \in Params :
            Unauthorized(r, "none", p, clock)
    \/ \E p \in Params, mwOK, newOK, pingOK \in BOOLEAN :
            CheckConnectionRequest("issued", p, clock, mwOK, newOK, pingOK)
    \/ \E r \in OperatorRoutes, p \in Params, mwOK \in BOOLEAN, o \in Outcomes :
            ClusterRequest(r, "issued", p, clock, mwOK, o)
    \/ \E bodyOK \in BOOLEAN, n \in PartitionNumbers, rf \in ReplicationFactors,
          o \in {"ok", "error"} :
            CreateTopicRequest("issued", "", clock, TRUE, bodyOK, n, rf, o)

Spec == Init /\ [][Next]_vars

\* the same server seen from the network over the lifetime of a token: any
\* header at any moment
InitAuth ==
    /\ PipelineAtStart
    /\ users = TwoUsers
    /\ FetchAtRest

AuthRoutes == {"topics", "check-connection", "change-password"}

NextAuth ==
    \/ \E t \in Times : Tick(t)
    \/ \E u \in Usernames \cup {"mallory"}, pw \in Passwords :
            Login(TRUE, u, pw, TRUE)
    \/ \E r \in AuthRoutes, l \in Credentials, p \in {"", "A"}, t \in Moments :
            Unauthorized(r, l, p, t)
    \/ \E l \in Credentials, t \in Moments :
            CheckConnectionRequest(l, "A", t, TRUE, TRUE, TRUE)
    \/ \E l \in Credentials, t \in Moments :
            ClusterRequest("topics", l, "", t, TRUE, "ok")
    \/ \E l \in Credentials, cur \in Passwords :
            ChangePasswordRequest(l, "", clock, TRUE, TRUE, cur, Field("hunter2"), "ok")

SpecAuth == InitAuth /\ [][NextAuth]_vars

(***************************************************************************)
(* Properties of the request pipeline                                      *)
(***************************************************************************)

Gated == last.route \in ProtectedRoutes

\* the signature bytes are the MAC of the token's header and claims under
\* the configured key, and the token has not expired at time t
Verifies(tok, t) ==
    /\ tok.form = "jwt"
    /\ tok.alg \in HMACAlgs
    /\ tok.sig = MAC(Secret, tok.alg, tok.sub, tok.hasExp, tok.exp)
    /\ tok.hasExp => t < tok.exp

Authorized == last.scheme = "Bearer" /\ Verifies(last.tok, last.now1)

\* C6: on every route but POST /api/login a handler (or the rebind gate
\* before it) runs only for a request with a Bearer header whose token
\* verifies under the configured key and is not expired; every other request
\* is answered 401 and nothing after the authentication gate runs for it.
C6_NoHandlerWithoutValidToken ==
    Gated =>
        /\ (last.ran \/ last.rebindRan \/ last.called) => Authorized
        /\ ~Authorized =>
            /\ last.status = 401
            /\ ~last.ran /\ ~last.rebindRan /\ ~last.called
            /\ last.built = 0 /\ last.used = NIL

\* bob's token took a cluster-scoped request through the gate to its handler
C6_Witness ==
    /\ last.route \in ClusterRoutes
    /\ Authorized
    /\ last.ran /\ last.called
    /\ last.user = "bob"
    /\ last.status = 200

\* C7 (as claimed): a request whose Bearer token is correctly signed and
\* whose exp has passed is answered 401 with the expired-token message,
\* which tells it apart from an otherwise invalid token.
C7_ExpiredTokenHasItsOwnMessage ==
    (/\ Gated
     /\ last.scheme = "Bearer"
     /\ last.tok.hasExp
     /\ Verifies(last.tok, 0)
     /\ last.now1 > last.tok.exp)
        => last.status = 401 /\ last.msg = "Token expired"

\* the header carries the token the issuer handed out, unaltered
PresentsIssued == last.scheme = "Bearer" /\ token # NoToken /\ last.tok = token

\* the header carries the issued token with some byte of it changed
PresentsAltered ==
    /\ last.scheme = "Bearer"
    /\ token # NoToken
    /\ last.tok # token
    /\ \E l \in {"alt-sub", "alt-exp", "alt-alg", "alt-sig", "alt-pad"} :
            last.tok = Presented(l, token)

\* C8 (as claimed): the token a successful Login issues at T carries the
\* user's name and exp = T + 24 h; the gate accepts it with that subject
\* while the clock is before T + 24 h, rejects it once the clock is past
\* T + 24 h, and rejects every token made by altering a byte of it.
C8_TokenRoundTrip ==
    /\ (last.route = "login" /\ last.status = 200) =>
            /\ token.sub = last.user
            /\ token.exp = last.now1 + TokenTTL
    /\ (Gated /\ PresentsIssued /\ last.now2 < last.tok.exp) =>
            last.rebindRan /\ last.user = last.tok.sub
    /\ (Gated /\ PresentsIssued /\ last.now1 > last.tok.exp) =>
            last.status = 401 /\ ~last.rebindRan
    /\ (Gated /\ PresentsAltered) =>
            last.status = 401 /\ ~last.rebindRan

CurrentCluster == connected[Len(connected)]

\* C9: once a check-connection has succeeded, a cluster-scoped request
\* without a bootstrapServer parameter is executed against a handle bound to
\* the endpoint of the latest successful check-connection.
C9_RequestsFollowCheckConnection ==
    (/\ last.route \in ClusterRoutes
     /\ last.called
     /\ last.param = ""
     /\ connected # <<>>)
        => ~last.panic /\ last.used.endpoint = CurrentCluster

\* check-connection to A, then to B, then a request without the parameter
C9_Witness ==
    /\ Len(connected) = 2
    /\ connected[1] = "A"
    /\ connected[2] = "B"
    /\ last.route = "topics"
    /\ last.param = ""
    /\ last.status = 200
    /\ last.used.endpoint = "B"

\* C10 (as claimed): a cluster-scoped request with a non-empty
\* bootstrapServer for which the rebind gate built a handle is executed by
\* its handler against a handle bound to that endpoint.
C10_ParameterRebindsHandlerSlot ==
    (/\ last.route \in ClusterRoutes
     /\ last.called
     /\ last.param # ""
     /\ last.mwBuilt)
        => ~last.panic /\ last.used.endpoint = last.param

\* C11 (as claimed): while the slot the handlers read is still empty, a
\* cluster-scoped request is answered with an error and its handler does not
\* call through the empty slot.
C11_EmptySlotIsNotDereferenced ==
    (/\ last.route \in ClusterRoutes
     /\ last.ran
     /\ apiSlot = NIL)
        => last.status >= 400 /\ ~last.called /\ ~last.panic

\* C12 (as claimed): whatever rebinds have been made, at most one Kafka
\* client handle is open; a handle that was replaced in the slot, or built
\* and not installed, has been closed.
C12_AtMostOneHandleOpen ==
    /\ Cardinality(open) <= 1
    /\ \A id \in open : apiSlot.id = id

\* C13: a rebind that fails leaves the slot as it was.  A request whose
\* rebind gate could not build a handle leaves the gate's slot unchanged, and
\* a check-connection that is not answered 200 (empty parameter, failed
\* construction, failed connection check) leaves the handlers' slot
\* unchanged; no other request writes the handlers' slot.
C13_FailedRebindKeepsSlot ==
    [][/\ (last'.rebindRan /\ ~last'.mwBuilt) => mwSlot' = mwSlot
       /\ (last'.route = "check-connection" /\ last'.status # 200) =>
                apiSlot' = apiSlot
       /\ last'.route # "check-connection" => apiSlot' = apiSlot]_vars

\* a check-connection to another endpoint failed after a handle was built,
\* and the handlers' slot still holds the handle of the earlier connection
C13_Witness ==
    /\ last.route = "check-connection"
    /\ last.status = 500
    /\ last.built >= 1
    /\ connected # <<>>
    /\ apiSlot # NIL
    /\ apiSlot.endpoint = CurrentCluster
    /\ apiSlot.endpoint # last.param

(***************************************************************************)
(* The gateway on a cluster: Produce and ClearTopicMessages of a client    *)
(* handle against the topic held in log, followed by a read.               *)
(***************************************************************************)

MaxOffset == 2

TopicName == "T"

\* the partitions of the topic as client.Partitions lists them
PartitionList(l) == [i \in 1..Cardinality(DOMAIN l) |-> i - 1]

\* the partition numbers a produce call asks for; below 0 asks for none
ProducePartitions == {0 - 1, 0, 1, 2}

\* the text fmt.Errorf builds, piece by piece
PartitionLookupError(topic) == <<"failed to get partitions for topic ", topic>>

NoSuchPartitionError(partition, topic) ==
    <<"partition ", partition, " does not exist for topic ", topic>>

LatestOffsetError(partition) ==
    <<"failed to get latest offset for partition ", partition>>

DeleteRecordsError(partition) ==
    <<"failed to delete records for partition ", partition>>

\* the log after one more record on partition p
Appended(l, p, ts) == [l EXCEPT ![p].recs = Append(@, ts)]

\* a cluster that deletes the records of partition p up to and including
\* offset h
TruncatedThrough(l, p, h) ==
    LET upto == min(h + 1, l[p].base + Len(l[p].recs))
    IN  IF upto <= l[p].base THEN l
        ELSE [l EXCEPT ![p] = [base |-> upto,
                               recs |-> SubSeq(l[p].recs, upto - l[p].base + 1,
                                               Len(l[p].recs))]]

\* the log after the cluster deleted the records of partition p below offset h
Truncated(l, p, h) ==
    IF h <= l[p].base THEN l
    ELSE [l EXCEPT ![p] = [base |-> h,
                           recs |-> SubSeq(l[p].recs, h - l[p].base + 1,
                                           Len(l[p].recs))]]

NoCallInProgress == gw.pc \in {"idle", "returned"} /\ fpc = "idle"

\* the offsets of the topic stay below MaxOffset
Room(p) == Newest(log, p) < MaxOffset

\* a Produce that dials the producer without looking at the partitions
ProduceUnchecked(partition, ts, partsOK, producerOK, sendOK) ==
    LET target == IF partition >= 0 THEN partition ELSE 0
        call == [GwIdle EXCEPT !.op = "produce", !.pc = "returned",
                               !.partition = partition]
    IN  /\ NoCallInProgress
        /\ partition < 0 => partsOK
        /\ ~producerOK => sendOK
        /\ (producerOK /\ sendOK /\ target \in DOMAIN log) => Room(target)
        /\ IF ~producerOK
           THEN /\ gw' = [call EXCEPT !.err = <<"producer">>, !.faults = 1]
                /\ log' = log
           ELSE IF ~sendOK \/ target \notin DOMAIN log
           THEN /\ gw' = [call EXCEPT !.err = <<"produce failed: ">>,
                                      !.faults = 1, !.producers = 1]
                /\ log' = log
           ELSE /\ gw' = [call EXCEPT !.producers = 1,
                                      !.sent = <<<<target, Newest(log, target)>>>>]
                /\ log' = Appended(log, target, ts)
        /\ UNCHANGED <<snap, fpc, fLimit, fOrder, fErr, budget, ctxDone, wk, chan,
                       chanClosed, messages, result>>
        /\ UNCHANGED <<inflight, clock, users, token, apiSlot, mwSlot, handles, connected,
                       last, open>>

\* the keys a record is produced with, and the hash of each
Keys == {"k0", "k1"}

Hash(key) == IF key = "k0" THEN 0 ELSE 1

\* a producer configured with the hash partitioner: the key chooses
HashPartitioner(msgPartition, key, numPartitions) == Hash(key) % numPartitions

\* sarama.NewManualPartitioner, the partitioner NewClient configures: the
\* partition is the Partition field of the message
ManualPartitioner(msgPartition, key, numPartitions) == msgPartition

\* where SendMessage places the message Produce builds: Partition is set
\* when the partition asked for is >= 0 and is left at its zero value
\* otherwise
Placement(partition, key, numPartitions) ==
    ManualPartitioner(IF partition >= 0 THEN partition ELSE 0, key, numPartitions)

\* Client.Produce: with a partition >= 0 the partitions of the topic are
\* looked up and the partition must be among them; then a producer is made
\* from the client, the message is sent (to the partition asked for, or with
\* no partition set) and the producer is closed.  The call returns its error
\* and nothing else: the partition and the offset SendMessage answered are
\* printed (gw.sent records them for the model's own use).
ProduceCall(partition, ts, partsOK, producerOK, sendOK) ==
    \E key \in Keys :
    LET target == Placement(partition, key, Cardinality(DOMAIN log))
        call == [GwIdle EXCEPT !.op = "produce", !.pc = "returned",
                               !.partition = partition, !.key = key]
        checked == partition >= 0
    IN  /\ NoCallInProgress
        /\ partition < 0 => partsOK
        /\ (checked /\ (~partsOK \/ partition \notin DOMAIN log)) =>
                producerOK /\ sendOK
        /\ ~producerOK => sendOK
        /\ (producerOK /\ sendOK /\ target \in DOMAIN log) => Room(target)
        /\ IF checked /\ ~partsOK
           THEN /\ gw' = [call EXCEPT !.err = PartitionLookupError(TopicName),
                                      !.faults = 1]
                /\ log' = log
           ELSE IF checked /\ partition \notin DOMAIN log
           THEN /\ gw' = [call EXCEPT
                            !.err = NoSuchPartitionError(partition, TopicName)]
                /\ log' = log
           ELSE IF ~producerOK
           THEN /\ gw' = [call EXCEPT !.err = <<"producer">>, !.faults = 1]
                /\ log' = log
           ELSE IF ~sendOK
           THEN /\ gw' = [call EXCEPT !.err = <<"produce failed: ">>,
                                      !.faults = 1, !.producers = 1]
                /\ log' = log
           ELSE /\ gw' = [call EXCEPT !.producers = 1,
                                      !.sent = <<<<target, Newest(log, target)>>>>]
                /\ log' = Appended(log, target, ts)

\* a call of Client.Produce from outside the request pipeline
Produce(partition, ts, partsOK, producerOK, sendOK) ==
    /\ ProduceCall(partition, ts, partsOK, producerOK, sendOK)
    /\ UNCHANGED <<snap, fpc, fLimit, fOrder, fErr, budget, ctxDone, wk, chan,
                   chanClosed, messages, result>>
    /\ UNCHANGED <<inflight, clock, users, token, apiSlot, mwSlot, handles, connected,
                   last, open>>

gwFrame ==
    /\ UNCHANGED <<snap, fpc, fLimit, fOrder, fErr, budget, ctxDone, wk, chan,
                   chanClosed, messages, result>>
    /\ UNCHANGED <<inflight, clock, users, token, apiSlot, mwSlot, handles, connected,
                   last, open>>

\* another client of the cluster appends a record to the topic
ProducedElsewhere(p, ts) ==
    /\ fpc = "idle"
    /\ p \in DOMAIN log
    /\ Room(p)
    /\ log' = Appended(log, p, ts)
    /\ gw' = [gw EXCEPT !.dirty = (gw.op = "clear")]
    /\ gwFrame

\* ClearTopicMessages, lines 570-574: the partitions of the topic
ClearStart(partsOK) ==
    LET call == [GwIdle EXCEPT
                    !.op = "clear", !.before = log,
                    !.again = (/\ gw.op = "clear" /\ gw.pc = "returned"
                               /\ gw.err = NoErr /\ ~gw.dirty)]
    IN  /\ NoCallInProgress
        /\ gw' = IF partsOK
                 THEN [call EXCEPT !.pc = "lookup", !.i = 1]
                 ELSE [call EXCEPT !.pc = "returned", !.faults = 1,
                                   !.err = PartitionLookupError(TopicName)]
        /\ log' = log
        /\ gwFrame

\* a lookup that asks for the deletion one offset past the newest
ClearLookupPastEnd(offsetOK) ==
    LET p == PartitionList(log)[gw.i]
    IN  /\ gw.op = "clear"
        /\ gw.pc = "lookup"
        /\ gw' = IF offsetOK
                 THEN [gw EXCEPT !.pc = "delete", !.partition = p,
                                 !.h = Newest(log, p) + 1]
                 ELSE [gw EXCEPT !.pc = "returned", !.partition = p,
                                 !.faults = @ + 1, !.err = LatestOffsetError(p)]
        /\ log' = log
        /\ gwFrame

\* lines 577-581: the newest offset of the partition the loop is at
ClearLookup(offsetOK) ==
    LET p == PartitionList(log)[gw.i]
    IN  /\ gw.op = "clear"
        /\ gw.pc = "lookup"
        /\ gw' = IF offsetOK
                 THEN [gw EXCEPT !.pc = "delete", !.partition = p,
                                 !.h = Newest(log, p)]
                 ELSE [gw EXCEPT !.pc = "returned", !.partition = p,
                                 !.faults = @ + 1, !.err = LatestOffsetError(p)]
        /\ log' = log
        /\ gwFrame

\* where the loop goes after the partition it is at
ClearAdvance(g) ==
    IF g.i = Len(PartitionList(log))
    THEN [g EXCEPT !.pc = "returned"]
    ELSE [g EXCEPT !.pc = "lookup", !.i = @ + 1]

\* a ClearTopicMessages that puts the topic back as it found it when a
\* delete-records request fails
ClearDeleteRollsBack(brokersOK, resp) ==
    LET p == gw.partition
        asked == [gw EXCEPT !.requests = Append(@, <<p, gw.h>>)]
    IN  /\ gw.op = "clear"
        /\ gw.pc = "delete"
        /\ resp \in {"deleted", "request-error", "partition-error"}
        /\ ~brokersOK => resp = "deleted"
        /\ IF ~brokersOK
           THEN /\ gw' = [gw EXCEPT !.pc = "returned", !.faults = @ + 1,
                                    !.err = <<"no brokers available">>]
                /\ log' = log
           ELSE IF resp = "request-error"
           THEN /\ gw' = [asked EXCEPT !.pc = "returned", !.faults = @ + 1,
                                       !.err = DeleteRecordsError(p)]
                /\ log' = gw.before
           ELSE IF resp = "partition-error"
           THEN /\ gw' = ClearAdvance([asked EXCEPT !.faults = @ + 1])
                /\ log' = log
           ELSE /\ gw' = ClearAdvance(asked)
                /\ log' = Truncated(log, p, gw.h)
        /\ gwFrame

\* lines 584-604: one delete-records request for the partition, up to the
\* offset read, sent to the first broker the client knows.  Only the error
\* of the call is looked at: a response that carries an error for the
\* partition (resp = "partition-error") counts as done.
ClearDelete(brokersOK, resp) ==
    LET p == gw.partition
        asked == [gw EXCEPT !.requests = Append(@, <<p, gw.h>>)]
    IN  /\ gw.op = "clear"
        /\ gw.pc = "delete"
        /\ resp \in {"deleted", "request-error", "partition-error"}
        /\ ~brokersOK => resp = "deleted"
        /\ IF ~brokersOK
           THEN /\ gw' = [gw EXCEPT !.pc = "returned", !.faults = @ + 1,
                                    !.err = <<"no brokers available">>]
                /\ log' = log
           ELSE IF resp = "request-error"
           THEN /\ gw' = [asked EXCEPT !.pc = "returned", !.faults = @ + 1,
                                       !.err = DeleteRecordsError(p)]
                /\ log' = log
           ELSE IF resp = "partition-error"
           THEN /\ gw' = ClearAdvance([asked EXCEPT !.faults = @ + 1])
                /\ log' = log
           ELSE /\ gw' = ClearAdvance(asked)
                /\ log' = Truncated(log, p, gw.h)
        /\ gwFrame

\* the limit the topic is read with after it was cleared
ReadLimits == {100}

\* the caller reads the topic after a ClearTopicMessages that returned
\* success, nothing having been produced since the call began; the read
\* meets no failure and no deadline
CallFetch ==
    /\ fpc = "idle"
    /\ gw.op = "clear"
    /\ gw.pc = "returned"
    /\ gw.err = NoErr
    /\ ~gw.dirty
    /\ fpc' = "call"
    /\ snap' = log
    /\ wk' = [p \in DOMAIN log |-> Worker0]
    /\ UNCHANGED <<log, fLimit, fOrder, fErr, budget, ctxDone, chan, chanClosed,
                   messages, result, pipeVars>>

\* the topics the gateway is called on: one or two partitions, empty or not
GatewayTopics ==
    {(0 :> [base |-> 0, recs |-> <<>>]),
     (0 :> [base |-> 0, recs |-> <<1>>]),
     (0 :> [base |-> 0, recs |-> <<>>]) @@ (1 :> [base |-> 0, recs |-> <<1>>]),
     (0 :> [base |-> 0, recs |-> <<2>>]) @@ (1 :> [base |-> 0, recs |-> <<1>>])}

\* the timestamp of a record produced while the model runs
ProducedTimestamps == {1}

InitGateway ==
    /\ PipelineAtStart
    /\ users = SeededUsers
    /\ log \in GatewayTopics
    /\ snap = log
    /\ fpc = "idle"
    /\ fLimit = 0
    /\ fOrder = "newest"
    /\ fErr = "none"
    /\ budget = 0
    /\ ctxDone = FALSE
    /\ wk = <<>>
    /\ chan = <<>>
    /\ chanClosed = FALSE
    /\ messages = <<>>
    /\ result = <<>>

NextGateway ==
    \/ \E P \in ProducePartitions, ts \in ProducedTimestamps,
          partsOK, producerOK, sendOK \in BOOLEAN :
            Produce(P, ts, partsOK, producerOK, sendOK)
    \/ \E p \in Partitions(log), ts \in ProducedTimestamps :
            ProducedElsewhere(p, ts)
    \/ \E partsOK \in BOOLEAN : ClearStart(partsOK)
    \/ \E offsetOK \in BOOLEAN : ClearLookup(offsetOK)
    \/ \E brokersOK \in BOOLEAN, resp \in {"deleted", "request-error", "partition-error"} :
            ClearDelete(brokersOK, resp)
    \/ CallFetch
    \/ \E L \in ReadLimits, partsOK \in BOOLEAN, consumerOK \in BOOLEAN :
            FetchStart(L, "newest", partsOK, consumerOK)
    \/ \E p \in Partitions(log) : WorkerBegin(p, TRUE, TRUE)
    \/ \E p \in Partitions(log) : WorkerReceive(p)
    \/ \E p \in Partitions(log) : WorkerIdle(p)
    \/ \E p \in Partitions(log) : WorkerSend(p)
    \/ CloseChan
    \/ Drain
    \/ FetchReturn

SpecGateway == InitGateway /\ [][NextGateway]_vars

(***************************************************************************)
(* Properties of the gateway                                               *)
(***************************************************************************)

\* a Produce call has returned that asked for a partition number >= 0 the
\* topic does not have
ProducedToMissingPartition ==
    /\ gw.op = "produce"
    /\ gw.pc = "returned"
    /\ gw.partition >= 0
    /\ gw.partition \notin DOMAIN log

\* C14 (as claimed): Produce with P >= 0 that is not a partition of T fails
\* with exactly 'partition P does not exist for topic T', creates no
\* producer and sends no record.
C14_MissingPartitionMessage ==
    ProducedToMissingPartition =>
        /\ gw.err = <<"partition ", gw.partition, " does not exist for topic ", "T">>
        /\ gw.producers = 0
        /\ gw.sent = <<>>

\* C14 (amended): Produce with P >= 0 that is not a partition of T creates
\* no producer and sends no record; it fails with exactly 'partition P does
\* not exist for topic T' when the lookup of T's partitions succeeds, and
\* with the lookup's error when it does not.
C14_MissingPartitionRefused ==
    ProducedToMissingPartition =>
        /\ gw.producers = 0
        /\ gw.sent = <<>>
        /\ gw.err # NoErr
        /\ gw.faults = 0 =>
            gw.err = <<"partition ", gw.partition, " does not exist for topic ", "T">>
        /\ gw.faults # 0 =>
            gw.err = <<"failed to get partitions for topic ", "T">>

\* partition 1 was asked for on a topic with the single partition 0
C14_Witness ==
    /\ ProducedToMissingPartition
    /\ gw.partition = 1
    /\ DOMAIN log = {0}
    /\ gw.err = <<"partition ", 1, " does not exist for topic ", "T">>

\* a ClearTopicMessages call has returned success
ClearSucceeded == gw.op = "clear" /\ gw.pc = "returned" /\ gw.err = NoErr

Cleared(l) == \A p \in DOMAIN l : l[p].recs = <<>>

\* C15 (as claimed): after ClearTopicMessages returned success, with no
\* record produced during or after the call, every partition is empty
\* (oldest offset = newest offset) and FetchMessages(T, 100, newest)
\* returns the empty list.
C15_ClearedTopicReadsEmpty ==
    (ClearSucceeded /\ ~gw.dirty) =>
        /\ \A p \in DOMAIN log : Oldest(log, p) = Newest(log, p)
        /\ (fpc = "returned" /\ fErr = "none") => result = <<>>

\* C16 (as claimed): ClearTopicMessages returns success only if, for every
\* partition, the records below the newest offset it read were deleted; a
\* deletion that did not succeed for some partition makes it return an error.
C16_SuccessOnlyIfDeleted ==
    ClearSucceeded =>
        \A p \in DOMAIN log :
            \E i \in DOMAIN gw.requests :
                /\ gw.requests[i][1] = p
                /\ Oldest(log, p) >= gw.requests[i][2]

\* C17: ClearTopicMessages called again on the topic it has just cleared
\* (every partition empty, nothing produced since) leaves every partition's
\* contents and offsets as they were, asks for one deletion per partition,
\* and returns success when every call it makes to the cluster is answered
\* without an error.
C17_ClearIsIdempotent ==
    (gw.op = "clear" /\ gw.again /\ Cleared(gw.before) /\ ~gw.dirty) =>
        /\ log = gw.before
        /\ (gw.pc = "returned" /\ gw.faults = 0) =>
                /\ gw.err = NoErr
                /\ Len(gw.requests) = Cardinality(DOMAIN log)

\* the second of two calls returned success on a partition whose records
\* the first one deleted
C17_Witness ==
    /\ ClearSucceeded
    /\ gw.again
    /\ Cleared(gw.before)
    /\ ~gw.dirty

ClearFailed == gw.op = "clear" /\ gw.pc = "returned" /\ gw.err # NoErr

\* the partitions the loop went through before the one it is at
ProcessedBefore == {PartitionList(log)[j] : j \in 1..(gw.i - 1)}

\* the partitions the loop has reached
Reached == {PartitionList(log)[j] : j \in 1..gw.i}

\* C31: ClearTopicMessages does not roll back.  When the call has failed at
\* some partition, delete-records requests were sent only for partitions up
\* to that one, and every partition the loop went through before it is
\* still truncated: with the failure it returned as its only one, the log
\* of each earlier partition starts at or after the offset asked for, and
\* none of the records the partition had when the call began is left.
C31_NoRollback ==
    ClearFailed =>
        /\ \A i \in DOMAIN gw.requests : gw.requests[i][1] \in Reached
        /\ gw.faults = 1 =>
              \A q \in ProcessedBefore :
                 /\ \E i \in DOMAIN gw.requests :
                        /\ gw.requests[i][1] = q
                        /\ Oldest(log, q) >= gw.requests[i][2]
                 /\ Oldest(log, q) >= Newest(gw.before, q)

\* the delete-records request for partition 1 failed after the record of
\* partition 0 was deleted
C31_Witness ==
    /\ ClearFailed
    /\ gw.faults = 1
    /\ gw.partition = 1
    /\ gw.err = DeleteRecordsError(1)
    /\ Newest(gw.before, 0) = 1
    /\ Oldest(log, 0) = 1
    /\ gw.requests = <<<<0, 1>>, <<1, 1>>>>

\* C32: ClearTopicMessages sends one delete-records request per partition,
\* with the newest offset H it read for that partition: the step that sends
\* the request adds one request <<p, H>> for a partition that has none yet,
\* H is an offset the partition has reached, and the step removes no record
\* with an offset >= H, so a record produced after H was read survives the
\* call; no other partition changes.  A call that returned success has sent
\* exactly one request for every partition.
C32_DeletesBelowOffsetRead ==
    /\ [](ClearSucceeded =>
            /\ Len(gw.requests) = Cardinality(DOMAIN log)
            /\ \A p \in DOMAIN log :
                  \E i \in DOMAIN gw.requests : gw.requests[i][1] = p)
    /\ [][(gw.op = "clear" /\ gw.pc = "delete" /\ gw'.requests # gw.requests) =>
            LET p == gw.partition
            IN  /\ gw'.requests = Append(gw.requests, <<p, gw.h>>)
                /\ \A i \in DOMAIN gw.requests : gw.requests[i][1] # p
                /\ gw.h >= Newest(gw.before, p)
                /\ gw.h <= Newest(log, p)
                /\ Newest(log', p) = Newest(log, p)
                /\ Oldest(log', p) <= max(Oldest(log, p), gw.h)
                /\ \A off \in max(Oldest(log, p), gw.h)..(Newest(log, p) - 1) :
                      RecordAt(log', p, off) = RecordAt(log, p, off)
                /\ \A q \in DOMAIN log \ {p} : log'[q] = log[q]]_vars

\* a record was produced to partition 0 between the read of its newest
\* offset and the delete-records request: the call returned success and the
\* record is still there
C32_Witness ==
    /\ ClearSucceeded
    /\ gw.dirty
    /\ \E i \in DOMAIN gw.requests :
          /\ gw.requests[i] = <<0, 1>>
          /\ Oldest(log, 0) = 1
          /\ Newest(log, 0) = 2
    /\ gw.faults = 0
    /\ \E p \in DOMAIN log : Oldest(log, p) > 0

(***************************************************************************)
(* The credential store: logins and password changes of the users of the  *)
(* file, with the failures of the file system.                             *)
(***************************************************************************)

\* a password of two lines, and one with a quote and a comma in it
TwoLines == <<"two", "CR", "LF", "lines">>

Quoted == <<"say ", "QUOTE", "hi", "QUOTE", "COMMA", " there">>

UserPasswords == {Field("password"), TwoLines, Quoted}

InitUsers ==
    /\ PipelineAtStart
    /\ users = SeededUsers
    /\ FetchAtRest

NextUsers ==
    \/ \E u \in Usernames, pw \in UserPasswords : Login(TRUE, u, pw, TRUE)
    \/ \E bodyOK \in BOOLEAN, cur \in UserPasswords, new \in UserPasswords,
          io \in {"ok", "read-fails", "create-fails", "write-fails"} :
            ChangePasswordRequest("issued", "", clock, TRUE, bodyOK, cur, new, io)
    \/ \E cur \in UserPasswords, new \in UserPasswords :
            ChangePasswordCrash("issued", "", clock, TRUE, cur, new)

SpecUsers == InitUsers /\ [][NextUsers]_vars

\* C18: once change-password of a user from X to Y (X # Y) has answered 200,
\* a login of that user with Y answers 200 and a login with X answers 401.
C18_NewPasswordLogsIn ==
    [][(/\ last.route = "change-password"
        /\ last.status = 200
        /\ last.current # last.password
        /\ last'.route = "login"
        /\ last'.user = last.user
        /\ last'.status # 400)
       => /\ last'.password = last.password => last'.status = 200
          /\ last'.password = last.current => last'.status = 401]_vars

\* C39: a login whose username has no record in the file and a login
\* whose username has one with another password get the same answer: 401
\* with the body 'Invalid credentials', no token.
C39_LoginFailuresLookAlike ==
    [][(last'.route = "login" /\ last'.status # 400) =>
        LET read  == ReadAll(users)
            recs  == read.records
            hits  == {i \in 2..Len(recs) : recs[i][1] = Field(last'.user)}
            first == CHOOSE i \in hits : \A j \in hits : i <= j
            unknown == hits = {}
            wrong   == hits # {} /\ recs[first][2] # last'.password
        IN  (~read.err /\ recs # <<>> /\ (unknown \/ wrong)) =>
                /\ last'.status = 401
                /\ last'.msg = "Invalid credentials"
                /\ last'.tok = NoToken
                /\ token' = token]_vars

\* a login with a username the file does not hold was answered
C39_Witness ==
    /\ last.route = "login"
    /\ last.user = "bob"
    /\ last.status = 401
    /\ last.msg = "Invalid credentials"
    /\ users = SeededUsers

\* C19: a process that dies inside UpdateUserPassword leaves the file with
\* either the whole old content or the whole new content.
C19_CrashKeepsOldOrNew ==
    [][(last'.route = "change-password" /\ last'.status = 0)
       => users' \in {users,
                      UpdateUserPassword(users, last'.user, last'.password,
                                         "ok").file}]_vars

\* C20: a create-topic request whose body asks for fewer than one partition
\* or a replication factor below one is answered 400 without a call of the
\* gateway, and the gateway's CreateTopic is called only with both numbers
\* at least 1.
C20_InvalidCreateTopicRefused ==
    (last.route = "create-topic" /\ last.ran /\ last.body # <<>>) =>
        /\ (last.body[1] < 1 \/ last.body[2] < 1) =>
                /\ last.status = 400
                /\ ~last.called
                /\ last.args = <<>>
        /\ last.called => last.args[1] >= 1 /\ last.args[2] >= 1

C20_Witness ==
    /\ last.route = "create-topic"
    /\ last.ran
    /\ last.body # <<>>
    /\ last.body[1] >= 1
    /\ last.body[2] < 1
    /\ last.status = 400
    /\ apiSlot # NIL

(***************************************************************************)
(* Properties of the partition workers                                     *)
(***************************************************************************)

\* the records the worker of partition p has received from the cluster
Received(p) == {RecordAt(log, p, off) : off \in wk[p].start..(wk[p].next - 1)}

\* the messages of partition p in the merged list
Contribution(p) == {m \in Range(messages) : m.partition = p}

\* C23: when the call has returned, every record a worker received before
\* the idle timer or the overall deadline stopped it is in the merged list,
\* in both modes.
C23_ReceivedIsMerged ==
    Returned =>
        \A p \in DOMAIN wk :
            (wk[p].pc = "done" /\ wk[p].why \in {"idle", "deadline"}) =>
                Received(p) \subseteq Range(messages)

\* the worker of partition p ran to its end: it found the partition empty,
\* reached its budget, or had received every record up to the newest offset
\* it looked up when the idle timer or a consumer error ended its reading,
\* and the deadline did not stop it
Undisturbed(p) ==
    /\ wk[p].pc = "done"
    /\ \/ wk[p].why \in {"empty", "budget"}
       \/ wk[p].why \in {"idle", "error"} /\ wk[p].next >= wk[p].hi

\* the last min(budget, newest - oldest) records of partition p in newest
\* mode, the first min(budget, newest - oldest) in oldest mode
Share(p) ==
    LET oldest == Oldest(snap, p)
        newest == Newest(snap, p)
        n      == min(budget, newest - oldest)
    IN  IF fOrder = "oldest"
        THEN {RecordAt(snap, p, off) : off \in oldest..(oldest + n - 1)}
        ELSE {RecordAt(snap, p, off) : off \in (newest - n)..(newest - 1)}

\* the worker of an empty partition ends without a partition consumer
NoConsumerOnEmpty ==
    \A p \in DOMAIN wk :
        (Newest(snap, p) <= Oldest(snap, p) /\ wk[p].pc # "init") =>
            /\ wk[p].pc = "done"
            /\ wk[p].why \in {"lookup", "empty"}
            /\ Contribution(p) = {}

Flow == messages \o chan

\* C27: the channel is closed once and only after every worker has
\* returned, nothing is sent on it once it is closed, and every message sent
\* is appended to the merged list exactly once: the messages appended and
\* those waiting in the channel are at every step the sends made so far, in
\* their order, no message twice, and none waits when the call returns.
C27_ChannelDiscipline ==
    [][/\ chanClosed => chanClosed'
       /\ chanClosed' => \A p \in DOMAIN wk' : wk'[p].pc = "done"
       /\ \/ Flow' = Flow
          \/ /\ ~chanClosed /\ ~chanClosed'
             /\ Len(Flow') = Len(Flow) + 1
             /\ SubSeq(Flow', 1, Len(Flow)) = Flow
             /\ Flow'[Len(Flow')] \notin Range(Flow)
       /\ fpc' = "returned" => chan' = <<>>]_vars

\* a call returned more messages than the channel has slots, from two
\* workers or from one that had to wait for the caller
C27_Witness ==
    /\ Returned
    /\ chanClosed
    /\ Len(messages) > Slots
    /\ Cardinality(Range(messages)) = Len(messages)

(***************************************************************************)
(* Termination of a call: the schedule of the goroutines and the timers.  *)
(***************************************************************************)

\* partitions with more records than the channel has slots
LiveTopics ==
    {(0 :> [base |-> 0, recs |-> <<1, 2, 3>>]),
     (0 :> [base |-> 0, recs |-> <<1, 2, 3>>]) @@ (1 :> [base |-> 0, recs |-> <<2>>])}

PartitionIds == {0, 1}

InitLive ==
    /\ PipelineAtStart
    /\ users = SeededUsers
    /\ log \in LiveTopics
    /\ snap = log
    /\ fpc = "call"
    /\ fLimit = 0
    /\ fOrder = "newest"
    /\ fErr = "none"
    /\ budget = 0
    /\ ctxDone = FALSE
    /\ wk = [p \in DOMAIN log |-> Worker0]
    /\ chan = <<>>
    /\ chanClosed = FALSE
    /\ messages = <<>>
    /\ result = <<>>

NextLive ==
    \/ \E order \in Orders, partsOK \in BOOLEAN, consumerOK \in BOOLEAN :
          FetchStart(1, order, partsOK, consumerOK)
    \/ Deadline
    \/ \E p \in Partitions(log), offsetsOK \in BOOLEAN, consumeOK \in BOOLEAN :
          WorkerBegin(p, offsetsOK, consumeOK)
    \/ \E p \in Partitions(log) : WorkerReceive(p)
    \/ \E p \in Partitions(log) : WorkerStreamClosed(p)
    \/ \E p \in Partitions(log) : WorkerReadDeadline(p)
    \/ \E p \in Partitions(log) : WorkerIdle(p)
    \/ \E p \in Partitions(log) : WorkerError(p)
    \/ \E p \in Partitions(log) : WorkerSend(p)
    \/ CloseChan
    \/ Drain
    \/ FetchReturn

\* what the Go scheduler and the timers give: the caller is made, every
\* goroutine that can take a step takes one, the 15 s context expires, and
\* the 3 s timer of a worker that waits for a record fires.  Nothing is
\* assumed of the cluster: it may never deliver a record.
FairLive ==
    /\ WF_vars(\E order \in Orders, partsOK \in BOOLEAN, consumerOK \in BOOLEAN :
                    FetchStart(1, order, partsOK, consumerOK))
    /\ WF_vars(Deadline)
    /\ \A p \in PartitionIds :
          /\ WF_vars(p \in DOMAIN wk /\ \E offsetsOK \in BOOLEAN, consumeOK \in BOOLEAN :
                                            WorkerBegin(p, offsetsOK, consumeOK))
          /\ WF_vars(p \in DOMAIN wk /\ WorkerIdle(p))
          /\ WF_vars(p \in DOMAIN wk /\ WorkerReadDeadline(p))
          /\ WF_vars(p \in DOMAIN wk /\ WorkerSend(p))
    /\ WF_vars(CloseChan)
    /\ WF_vars(Drain)
    /\ WF_vars(FetchReturn)

SpecLive == InitLive /\ [][NextLive]_vars /\ FairLive

\* C28: every call returns, and when it has returned every worker it
\* started has ended: with more messages than the channel has slots, with a
\* closed message stream, and when the deadline fires.
C28_CallTerminates ==
    <>(fpc = "returned" /\ \A p \in DOMAIN wk : wk[p].pc \in {"init", "done"})

\* a call returned whose worker had more messages than the channel has slots
C28_Witness ==
    /\ fpc = "returned"
    /\ fErr = "none"
    /\ \E p \in DOMAIN wk : Cardinality(Contribution(p)) > Slots
    /\ \A p \in DOMAIN wk : wk[p].pc = "done"

(***************************************************************************)
(* A read of a partition that is being written: records are produced to   *)
(* the topic while FetchMessages runs.                                     *)
(***************************************************************************)

\* how many records are produced while one call runs
MaxProduced == 2

\* one partition that holds exactly the smallest budget of a limited call
HotTopics == {(0 :> [base |-> 0, recs |-> Descending(MinPerPartition)])}

\* another client of the cluster appends a record while the call runs; the
\* partition consumers deliver it like any other record
ProducedDuringRead(p, ts) ==
    /\ fpc = "running"
    /\ p \in DOMAIN log
    /\ Len(log[p].recs) < Len(snap[p].recs) + MaxProduced
    /\ log' = Appended(log, p, ts)
    /\ UNCHANGED <<snap, fpc, fLimit, fOrder, fErr, budget, ctxDone, wk, chan,
                   chanClosed, messages, result, pipeVars>>

InitHot ==
    /\ PipelineAtStart
    /\ users = SeededUsers
    /\ log \in HotTopics
    /\ snap = log
    /\ fpc = "call"
    /\ fLimit = 0
    /\ fOrder = "newest"
    /\ fErr = "none"
    /\ budget = 0
    /\ ctxDone = FALSE
    /\ wk = [p \in DOMAIN log |-> Worker0]
    /\ chan = <<>>
    /\ chanClosed = FALSE
    /\ messages = <<>>
    /\ result = <<>>

NextHot ==
    \/ \E order \in Orders : FetchStart(1, order, TRUE, TRUE)
    \/ \E p \in Partitions(log) : ProducedDuringRead(p, MinPerPartition + 1)
    \/ \E p \in Partitions(log) : WorkerBegin(p, TRUE, TRUE)
    \/ \E p \in Partitions(log) : WorkerReceive(p)
    \/ \E p \in Partitions(log) : WorkerIdle(p)
    \/ \E p \in Partitions(log) : WorkerSend(p)
    \/ CloseChan
    \/ Drain
    \/ FetchReturn

SpecHot == InitHot /\ [][NextHot]_vars

\* C24: no partition has more messages in the merged list than the
\* per-partition budget, in both modes, records being produced to the
\* partition while it is read.
C24_ContributionWithinBudget ==
    fpc \in {"running", "returned"} =>
        \A p \in DOMAIN wk : Cardinality(Contribution(p)) <= budget

(***************************************************************************)
(* The per-partition budget over a range of limits and partition counts:  *)
(* calls on topics whose partitions are empty.                             *)
(***************************************************************************)

\* the largest limit a budget is computed for
MaxLimit == 70

BudgetLimits == 0..MaxLimit

BudgetPartitionCounts == 1..4

BudgetTopics ==
    {[p \in 0..(P - 1) |-> [base |-> 0, recs |-> <<>>]] : P \in BudgetPartitionCounts}

InitBudget ==
    /\ PipelineAtStart
    /\ users = SeededUsers
    /\ log \in BudgetTopics
    /\ snap = log
    /\ fpc = "call"
    /\ fLimit = 0
    /\ fOrder = "newest"
    /\ fErr = "none"
    /\ budget = 0
    /\ ctxDone = FALSE
    /\ wk = [p \in DOMAIN log |-> Worker0]
    /\ chan = <<>>
    /\ chanClosed = FALSE
    /\ messages = <<>>
    /\ result = <<>>

NextBudget ==
    \/ \E L \in BudgetLimits : FetchStart(L, "newest", TRUE, TRUE)
    \/ \E p \in Partitions(log) : WorkerBegin(p, TRUE, TRUE)
    \/ CloseChan
    \/ FetchReturn

SpecBudget == InitBudget /\ [][NextBudget]_vars

\* the budget of the call has been computed
Budgeted == fpc \in {"running", "returned"} /\ fErr = "none"

\* C25 (as claimed): the budget is 50 when L = 0 and otherwise
\* clamp(ceil(L*3/P), 20, 200), the quotient rounded up.
C25_BudgetRoundsUp ==
    Budgeted =>
        budget = IF fLimit = 0 THEN 50
                 ELSE LET P == Cardinality(DOMAIN log)
                          q == (fLimit * 3 + P - 1) \div P
                      IN  IF q < 20 THEN 20 ELSE IF q > 200 THEN 200 ELSE q

\* C25 (amended): the budget is 50 when L = 0 and otherwise
\* clamp(floor(L*3/P), 20, 200): the quotient is the integer division of
\* L*3 by P, rounded down.
C25_BudgetRoundsDown ==
    Budgeted =>
        budget = IF fLimit = 0 THEN 50
                 ELSE LET P == Cardinality(DOMAIN log)
                          q == (fLimit * 3) \div P
                      IN  IF q < 20 THEN 20 ELSE IF q > 200 THEN 200 ELSE q

\* a limit whose tripled value the partition count does not divide, with the
\* quotient strictly inside the clamp
C25_Witness ==
    /\ Budgeted
    /\ fLimit = 15
    /\ Cardinality(DOMAIN log) = 2
    /\ budget = 22

(***************************************************************************)
(* Producing through the request pipeline: POST /api/produce behind the    *)
(* two gates, on the handle check-connection installed.                    *)
(***************************************************************************)

\* api.ProduceMessage: the body is bound, a partition below 0 becomes -1,
\* and Client.Produce is called on the handlers' slot; its error is answered
\* 500 with the error's text, its success 200 with {"status": "sent"}
ProduceMessageRequest(label, param, now2, mwOK, bodyOK, bodyPartition, ts, partsOK, producerOK, sendOK) ==
    LET g  == GateOf(label, now2)
        rb == BootstrapMiddleware(param, mwOK, mwSlot, handles)
        partition == IF bodyPartition >= 0 THEN bodyPartition ELSE 0 - 1
        in == [Arrived("produce", label, param, now2) EXCEPT
                    !.user = g.user, !.rebindRan = TRUE, !.ran = TRUE,
                    !.built = rb.built, !.mwBuilt = (rb.built = 1)]
    IN  /\ g.pass
        /\ param = "" => mwOK
        /\ (~bodyOK \/ apiSlot = NIL) =>
                bodyPartition = 0 /\ partsOK /\ producerOK /\ sendOK
        /\ handles + rb.built <= MaxHandles
        /\ clock' = now2
        /\ mwSlot' = rb.slot
        /\ handles' = handles + rb.built
        /\ open' = open \cup ((handles + 1)..(handles + rb.built))
        /\ IF ~bodyOK
           THEN /\ last' = [in EXCEPT !.status = 400, !.msg = "Invalid request body",
                                      !.reply = {<<"error", "Invalid request body">>}]
                /\ UNCHANGED <<gw, log>>
           ELSE IF apiSlot = NIL
           THEN /\ last' = [in EXCEPT !.status = 500, !.called = TRUE,
                                      !.panic = TRUE, !.body = <<bodyPartition>>,
                                      !.args = <<partition>>]
                /\ UNCHANGED <<gw, log>>
           ELSE /\ ProduceCall(partition, ts, partsOK, producerOK, sendOK)
                /\ last' =
                    IF gw'.err # NoErr
                    THEN [in EXCEPT !.status = 500, !.called = TRUE,
                                    !.used = apiSlot, !.body = <<bodyPartition>>,
                                    !.args = <<partition>>, !.detail = gw'.err,
                                    !.reply = {<<"error", "err.Error()">>}]
                    ELSE [in EXCEPT !.status = 200, !.called = TRUE,
                                    !.used = apiSlot, !.body = <<bodyPartition>>,
                                    !.args = <<partition>>,
                                    !.reply = {<<"status", "sent">>}]
        /\ UNCHANGED <<inflight, users, token, apiSlot, connected>>
        /\ UNCHANGED <<snap, fpc, fLimit, fOrder, fErr, budget, ctxDone, wk, chan,
                       chanClosed, messages, result>>

NextProduce ==
    \/ \E pw \in Passwords : Login(TRUE, "admin", pw, TRUE)
    \/ \E pingOK \in BOOLEAN :
            CheckConnectionRequest("issued", "A", clock, TRUE, TRUE, pingOK)
    \/ \E bodyOK \in BOOLEAN, P \in ProducePartitions, ts \in ProducedTimestamps,
          partsOK, producerOK, sendOK \in BOOLEAN :
            ProduceMessageRequest("issued", "", clock, TRUE, bodyOK, P, ts,
                                  partsOK, producerOK, sendOK)

SpecProduce == InitGateway /\ [][NextProduce]_vars

\* the produce handler called the gateway on a connected handle
ProduceAnswered ==
    last.route = "produce" /\ last.ran /\ last.body # <<>> /\ ~last.panic

\* C21: a produce request that names a partition the topic does not have is
\* answered 400, like a body that does not bind.
C21_MissingPartitionIs400 ==
    (ProduceAnswered /\ last.body[1] >= 0 /\ last.body[1] \notin DOMAIN log)
        => last.status = 400

\* C22: the answer to a successful produce carries the ok status, the
\* partition the record went to and the offset the cluster gave it.
C22_SuccessReportsPosition ==
    (ProduceAnswered /\ last.status = 200) =>
        /\ <<"status", "ok">> \in last.reply
        /\ \E kv \in last.reply : kv[1] = "partition"
        /\ \E kv \in last.reply : kv[1] = "offset"

\* C30: a request the authentication gate rejects is answered 401 without
\* the rebind gate or a handler having run: no Kafka client is built and
\* neither handle slot changes, whatever bootstrapServer parameter the
\* request carries.
C30_RejectedRequestBuildsNothing ==
    [][(/\ last'.route \in ProtectedRoutes
        /\ ~JWTMiddleware(last'.scheme, last'.tok, last'.now1, last'.now2).pass)
       => /\ last'.status = 401
          /\ ~last'.rebindRan /\ ~last'.ran /\ last'.built = 0
          /\ handles' = handles
          /\ open' = open
          /\ apiSlot' = apiSlot
          /\ mwSlot' = mwSlot]_vars

\* a request with a forged token and a bootstrapServer parameter, rejected
\* by a server that is connected to a cluster
C30_Witness ==
    /\ last.route \in ProtectedRoutes
    /\ last.scheme = "Bearer"
    /\ last.param = "A"
    /\ last.status = 401
    /\ ~last.rebindRan
    /\ apiSlot # NIL
    /\ handles = 2

(***************************************************************************)
(* NewClient: the sarama client is opened, then the cluster admin is made  *)
(* from it.  open holds the ids of the sarama clients that are open.       *)
(***************************************************************************)

\* how many sarama clients are opened in one run
MaxClients == 4

\* a NewClient that returns the admin's error without closing the client
NewClientKeepsClient(endpoint, n, clientOK, adminOK) ==
    IF ~clientOK
    THEN [handle |-> NIL, err |-> "failed to create client",
          opened |-> {}, closed |-> {}]
    ELSE IF ~adminOK
    THEN [handle |-> NIL, err |-> "failed to create admin",
          opened |-> {n + 1}, closed |-> {}]
    ELSE [handle |-> NewKafkaClient(endpoint, n + 1), err |-> "",
          opened |-> {n + 1}, closed |-> {}]

\* NewClient, lines 45-61: what it returns, the sarama clients it opened
\* and the ones it closed again; n clients were opened before
NewClient(endpoint, n, clientOK, adminOK) ==
    IF ~clientOK
    THEN [handle |-> NIL, err |-> "failed to create client",
          opened |-> {}, closed |-> {}]
    ELSE IF ~adminOK
    THEN [handle |-> NIL, err |-> "failed to create admin",
          opened |-> {n + 1}, closed |-> {n + 1}]
    ELSE [handle |-> NewKafkaClient(endpoint, n + 1), err |-> "",
          opened |-> {n + 1}, closed |-> {}]

\* one call of NewClient
NewClientCall(endpoint, clientOK, adminOK) ==
    LET res == NewClient(endpoint, handles, clientOK, adminOK)
    IN  /\ handles + Cardinality(res.opened) <= MaxClients
        /\ ~clientOK => adminOK
        /\ handles' = handles + Cardinality(res.opened)
        /\ open' = (open \cup res.opened) \ res.closed
        /\ last' = [NoRequest EXCEPT !.route = "NewClient", !.param = endpoint,
                                     !.msg = res.err, !.used = res.handle,
                                     !.built = Cardinality(res.opened)]
        /\ UNCHANGED <<inflight, clock, users, token, apiSlot, mwSlot, connected>>
        /\ UNCHANGED <<gw, fetchVars>>

NextNewClient ==
    \E e \in Endpoints, clientOK, adminOK \in BOOLEAN :
        NewClientCall(e, clientOK, adminOK)

SpecNewClient == Init /\ [][NextNewClient]_vars

\* C38: a NewClient call that returns an error leaves open exactly the
\* clients that were open before it, whether opening the client failed or
\* creating the admin failed after the client was opened; it returns a
\* handle if and only if it returns no error, and then the client of that
\* handle, and nothing else, is newly open.
C38_NothingLeftOpenOnFailure ==
    [][(last'.route = "NewClient" /\ <<last, handles, open>>' # <<last, handles, open>>) =>
        /\ last'.msg # "" => open' = open
        /\ last'.used # NIL <=> last'.msg = ""
        /\ last'.msg = "" =>
              /\ last'.used.id \notin open
              /\ open' = open \cup {last'.used.id}]_vars

\* creating the admin failed after the client was opened, and the client is
\* not open
C38_Witness ==
    /\ last.route = "NewClient"
    /\ last.msg = "failed to create admin"
    /\ last.built = 1
    /\ handles >= 1
    /\ handles \notin open

(***************************************************************************)
(* UpdateUserPassword on the files an installation can hold.               *)
(***************************************************************************)

\* the seeded file with CR LF line ends, as an editor may leave it
SeededCRLF ==
    <<"username", "COMMA", "password", "CR", "LF",
      "admin", "COMMA", "password", "CR", "LF">>

\* the files UpdateUserPassword is called on
ProvisionedFiles ==
    {<<>>,
     WriteAll(<<HeaderRow>>),
     SeededUsers,
     SeededCRLF,
     TwoUsers,
     WriteAll(<<HeaderRow, <<Field("bob"), Quoted>>,
                <<Field("admin"), Field("password")>>,
                <<Field("bob"), TwoLines>>>>)}

InitUpdate ==
    /\ PipelineAtStart
    /\ users \in ProvisionedFiles
    /\ FetchAtRest

\* one call of UpdateUserPassword
UpdateCall(username, newPassword, io) ==
    LET w == UpdateUserPassword(users, username, newPassword, io)
    IN  /\ users' = w.file
        /\ last' = [NoRequest EXCEPT !.route = "UpdateUserPassword",
                                     !.user = username, !.password = newPassword,
                                     !.msg = w.err]
        /\ UNCHANGED <<inflight, clock, token, apiSlot, mwSlot, handles, connected>>
        /\ UNCHANGED <<open, gw, fetchVars>>

NextUpdate ==
    \E u \in Usernames \cup {"mallory"}, pw \in UserPasswords,
       io \in {"ok", "read-fails", "create-fails", "write-fails"} :
            UpdateCall(u, pw, io)

SpecUpdate == InitUpdate /\ [][NextUpdate]_vars

\* the records after the header that carry this username
RecordsOf(recs, username) ==
    {i \in 2..Len(recs) : recs[i][1] = Field(username)}

MaxOps == 2

\* data/users.csv does not exist: the one piece no text holds
Absent == <<"ENOENT">>

\* the passwords the requests present and ask for
StorePasswords == {Field("password"), Field("hunter2"), Field("letmein")}

\* the requests that hold userMutex for reading: inside GetUser
ReadHolders ==
    {r \in DOMAIN inflight : inflight[r].pc \in {"create", "flush", "read"}}

\* the requests that hold userMutex for writing: inside UpdateUserPassword
WriteHolders == {r \in DOMAIN inflight : inflight[r].pc = "rewrite"}

\* userMutex.RLock returns when no writer holds the lock
RLock == WriteHolders = {}

\* userMutex.Lock returns when nobody holds the lock
Lock == ReadHolders = {} /\ WriteHolders = {}

storeFrame ==
    /\ UNCHANGED <<clock, token, apiSlot, mwSlot, handles, connected, last, open, gw>>
    /\ UNCHANGED fetchVars

\* a login (new = <<>>) or a change-password request reaches its handler
StoreArrive(kind, user, current, new) ==
    /\ Len(inflight) < MaxOps
    /\ kind = "login" <=> new = <<>>
    /\ inflight' = Append(inflight,
            [kind |-> kind, user |-> user, current |-> current, new |-> new,
             pc |-> "arrived", buf |-> <<>>, status |-> 0, msg |-> ""])
    /\ users' = users
    /\ storeFrame

\* GetUser, lines 61-64, and ensureUsersFile up to os.Stat, line 34
GetUserEnter(r) ==
    /\ inflight[r].pc = "arrived"
    /\ RLock
    /\ inflight' = [inflight EXCEPT
                        ![r].pc = IF users = Absent THEN "create" ELSE "read"]
    /\ users' = users
    /\ storeFrame

\* ensureUsersFile, line 36: os.Create makes the file, or empties the one
\* that is there by now; the two rows go to the writer's buffer
EnsureCreate(r) ==
    /\ inflight[r].pc = "create"
    /\ users' = <<>>
    /\ inflight' = [inflight EXCEPT ![r].pc = "flush"]
    /\ storeFrame

\* ensureUsersFile returns: the deferred Flush writes the two rows at the
\* start of the file, then the file is closed
EnsureFlush(r) ==
    /\ inflight[r].pc = "flush"
    /\ users' = SeededUsers
    /\ inflight' = [inflight EXCEPT ![r].pc = "read"]
    /\ storeFrame

\* GetUser, lines 68-91, the unlock, and what the handler does with the
\* answer: Login answers; ChangePassword answers or goes on to the update
GetUserReturn(r) ==
    LET op == inflight[r]
        u  == GetUser(users, op.user, TRUE)
        answered(status, msg) ==
            [inflight EXCEPT ![r].pc = "done", ![r].status = status, ![r].msg = msg]
    IN  /\ op.pc = "read"
        /\ inflight' =
            IF u.err = "panic" THEN answered(500, "")
            ELSE IF op.kind = "login"
            THEN IF u.err # "none" \/ u.password # op.current
                 THEN answered(401, "Invalid credentials")
                 ELSE answered(200, "token")
            ELSE IF u.err # "none" THEN answered(401, "User not found")
            ELSE IF u.password # op.current
            THEN answered(401, "Current password is incorrect")
            ELSE [inflight EXCEPT ![r].pc = "checked"]
        /\ users' = users
        /\ storeFrame

\* UpdateUserPassword, lines 96-133: the lock, ensureUsersFile, the read,
\* the search, and os.Create, which empties the file
UpdateEnter(r) ==
    LET op   == inflight[r]
        file == IF users = Absent THEN SeededUsers ELSE users
        w    == UpdateUserPassword(file, op.user, op.new, "ok")
    IN  /\ op.pc = "checked"
        /\ Lock
        /\ IF w.err # "none"
           THEN /\ users' = file
                /\ inflight' = [inflight EXCEPT
                                    ![r].pc = "done", ![r].status = 500,
                                    ![r].msg = "Failed to update password"]
           ELSE /\ users' = <<>>
                /\ inflight' = [inflight EXCEPT ![r].pc = "rewrite",
                                                ![r].buf = w.file]
        /\ storeFrame

\* UpdateUserPassword, lines 139-146: WriteAll, the deferred Flush and the
\* unlock; the handler answers 200
UpdateWrite(r) ==
    /\ inflight[r].pc = "rewrite"
    /\ users' = inflight[r].buf
    /\ inflight' = [inflight EXCEPT
                        ![r].pc = "done", ![r].status = 200, ![r].buf = <<>>,
                        ![r].msg = "Password changed successfully"]
    /\ storeFrame

\* the server starts with the file absent, or seeded by an earlier run
InitStore ==
    /\ PipelineAtStart
    /\ users \in {Absent, SeededUsers}
    /\ FetchAtRest

NextStore ==
    \/ \E u \in {"admin", "bob"}, pw \in StorePasswords :
            StoreArrive("login", u, pw, <<>>)
    \/ \E cur \in StorePasswords, new \in StorePasswords :
            StoreArrive("change-password", "admin", cur, new)
    \/ \E r \in DOMAIN inflight : GetUserEnter(r)
    \/ \E r \in DOMAIN inflight : EnsureCreate(r)
    \/ \E r \in DOMAIN inflight : EnsureFlush(r)
    \/ \E r \in DOMAIN inflight : GetUserReturn(r)
    \/ \E r \in DOMAIN inflight : UpdateEnter(r)
    \/ \E r \in DOMAIN inflight : UpdateWrite(r)

SpecStore == InitStore /\ [][NextStore]_vars

\* the requests that are writing the file: between os.Create and the flush
Writing == {r \in DOMAIN inflight : inflight[r].pc \in {"flush", "rewrite"}}

\* the file exists and does not start with the header row
LacksHeader ==
    /\ users # Absent
    /\ LET read == ReadAll(users)
       IN  read.err \/ read.records = <<>> \/ read.records[1] # HeaderRow

\* C33 (as claimed): every write to the credential file, the creation and
\* seeding included, is done with the guard held exclusively: a request
\* that is writing the file is the only one inside GetUser or
\* UpdateUserPassword, so nobody inside GetUser finds a file that exists
\* without its header row, no request was answered from such a file, and no
\* two requests are creating the file at once.
C33_WritesAreExclusive ==
    /\ \A r \in Writing : ReadHolders \cup WriteHolders = {r}
    /\ \A r \in DOMAIN inflight : inflight[r].pc = "read" => ~LacksHeader
    /\ \A r \in DOMAIN inflight : inflight[r].status # 500
    /\ Cardinality({r \in DOMAIN inflight :
                        inflight[r].pc \in {"create", "flush"}}) <= 1

\* C34 (as claimed): a change-password request gets as far as writing the
\* new password only if the current password it supplied is the stored
\* password at that moment, so of two concurrent requests that present the
\* same old password with different new ones at most one is answered 200.
C34_CheckedWhenWritten ==
    [][\A r \in DOMAIN inflight :
          (inflight[r].pc = "checked" /\ inflight'[r].pc = "rewrite") =>
                GetUser(users, inflight[r].user, TRUE).password
                    = inflight[r].current]_vars

\* C36 (as claimed): the credential file is seeded only when it is absent:
\* os.Create of ensureUsersFile runs on a file that is absent, the flush
\* writes the header row and admin,password into the empty file that call
\* made, and a file that exists is not touched by either.
C36_SeededOnlyWhenAbsent ==
    [][\A r \in DOMAIN inflight :
          /\ (inflight[r].pc = "create" /\ inflight'[r].pc = "flush") =>
                users = Absent
          /\ (inflight[r].pc = "flush" /\ inflight'[r].pc = "read") =>
                users = <<>> /\ users' = SeededUsers]_vars

(***************************************************************************)
(* Concurrent requests.  gin serves every request on its own goroutine,    *)
(* and api.kafkaService is a package variable of interface type that the   *)
(* handlers read and check-connection writes without any lock: a data      *)
(* race.  An interface value is two words, the type word and the data      *)
(* word; a store writes them one after the other, in an order the build    *)
(* chooses, and a load that falls between the two sees one new word and    *)
(* one old word.                                                           *)
(***************************************************************************)

\* how many requests are served at the same time
MaxRequests == 3

\* the type word alone: a non-nil interface around a nil *Client
TypeOnly == [id |-> 0, endpoint |-> "type word only"]

\* the data word alone: the type word is still nil
DataOnly(id) == [id |-> id, endpoint |-> "data word only"]

\* the endpoint of the handle with this id, built by a request in flight
EndpointOf(id) ==
    LET r == CHOOSE r \in DOMAIN inflight : inflight[r].h.id = id
    IN  inflight[r].h.endpoint

\* the two words of a slot value
TypeWord(v) == IF v = NIL \/ v.endpoint = "data word only" THEN 0 ELSE 1

DataWord(v) == v.id

\* the slot value the two words make
Compose(type, data) ==
    IF type = 0 /\ data = 0 THEN NIL
    ELSE IF type = 0 THEN DataOnly(data)
    ELSE IF data = 0 THEN TypeOnly
    ELSE NewKafkaClient(EndpointOf(data), data)

\* a request that passed the authentication gate and the rebind gate.
\* check-connection has built its handle and checked the connection
\* (README.md:393-402); a topics request has entered GetTopics.
RaceArrive(kind, param) ==
    LET g  == GateOf("issued", clock)
        rb == BootstrapMiddleware(param, TRUE, mwSlot, handles)
        h  == IF kind = "check-connection"
              THEN NewKafkaClient(param, handles + rb.built + 1)
              ELSE NIL
        built == rb.built + (IF kind = "check-connection" THEN 1 ELSE 0)
    IN  /\ g.pass
        /\ Len(inflight) < MaxRequests
        /\ kind = "check-connection" <=> param # ""
        /\ inflight' = Append(inflight,
                [kind |-> kind, pc |-> "entered", h |-> h, first |-> "",
                 status |-> 0])
        /\ mwSlot' = rb.slot
        /\ handles' = handles + built
        /\ open' = open \cup ((handles + 1)..(handles + built))
        /\ UNCHANGED <<clock, users, token, apiSlot, connected, last, gw, fetchVars>>

\* kafkaService = client (README.md:403), first word
RaceStore(r, first) ==
    /\ inflight[r].kind = "check-connection"
    /\ inflight[r].pc = "entered"
    /\ apiSlot' = IF first = "type"
                  THEN Compose(1, DataWord(apiSlot))
                  ELSE Compose(TypeWord(apiSlot), inflight[r].h.id)
    /\ inflight' = [inflight EXCEPT ![r].pc = "storing", ![r].first = first]
    /\ UNCHANGED <<clock, users, token, mwSlot, handles, connected, last, open,
                   gw, fetchVars>>

\* kafkaService = client, second word, and the answer 200
RaceStoreRest(r) ==
    /\ inflight[r].kind = "check-connection"
    /\ inflight[r].pc = "storing"
    /\ apiSlot' = IF inflight[r].first = "type"
                  THEN Compose(TypeWord(apiSlot), inflight[r].h.id)
                  ELSE Compose(1, DataWord(apiSlot))
    /\ inflight' = [inflight EXCEPT ![r].pc = "done", ![r].status = 200]
    /\ connected' = Append(connected, inflight[r].h.endpoint)
    /\ last' = [NoRequest EXCEPT !.route = "check-connection", !.status = 200,
                                 !.msg = "connected", !.ran = TRUE,
                                 !.rebindRan = TRUE, !.called = TRUE,
                                 !.param = inflight[r].h.endpoint,
                                 !.used = inflight[r].h]
    /\ UNCHANGED <<clock, users, token, mwSlot, handles, open, gw, fetchVars>>

\* kafkaService.ListTopics() (README.md:218): the one load of the slot
RaceRead(r) ==
    /\ inflight[r].kind = "topics"
    /\ inflight[r].pc = "entered"
    /\ inflight' = [inflight EXCEPT ![r].pc = "calling", ![r].h = apiSlot]
    /\ UNCHANGED <<clock, users, token, apiSlot, mwSlot, handles, connected, last,
                   open, gw, fetchVars>>

\* the value is a handle some request built
IsHandle(v) == v.id > 0 /\ v.endpoint \in Endpoints

\* the gateway call ends on the value that was loaded: on a handle it
\* answers 200, on a nil interface or a nil *Client it panics and gin's
\* recovery answers 500
RaceReturn(r) ==
    /\ inflight[r].kind = "topics"
    /\ inflight[r].pc = "calling"
    /\ inflight' = [inflight EXCEPT
                        ![r].pc = "done",
                        ![r].status = IF IsHandle(inflight[r].h) THEN 200 ELSE 500]
    /\ last' = [NoRequest EXCEPT !.route = "topics", !.ran = TRUE,
                                 !.rebindRan = TRUE, !.called = TRUE,
                                 !.status = IF IsHandle(inflight[r].h) THEN 200 ELSE 500,
                                 !.panic = ~IsHandle(inflight[r].h),
                                 !.used = IF IsHandle(inflight[r].h)
                                          THEN inflight[r].h ELSE NIL]
    /\ UNCHANGED <<clock, users, token, apiSlot, mwSlot, handles, connected, open,
                   gw, fetchVars>>

NextRace ==
    \/ Login(TRUE, "admin", Field("password"), TRUE)
    \/ \E p \in Endpoints : RaceArrive("check-connection", p)
    \/ RaceArrive("topics", "")
    \/ \E r \in DOMAIN inflight, first \in {"type", "data"} : RaceStore(r, first)
    \/ \E r \in DOMAIN inflight : RaceStoreRest(r)
    \/ \E r \in DOMAIN inflight : RaceRead(r)
    \/ \E r \in DOMAIN inflight : RaceReturn(r)

SpecRace == Init /\ [][NextRace]_vars

\* the handles check-connection requests have started to store
Written ==
    {inflight[r].h : r \in {q \in DOMAIN inflight :
                                /\ inflight[q].kind = "check-connection"
                                /\ inflight[q].pc \in {"storing", "done"}}}

\* C29: under racing rebinds the slot holds nil or one of the handles
\* written to it, and a handler's call runs on the one value it loaded: a
\* handle that was written (answered 200 whatever the slot holds by then) or
\* the nil main installed.
C29_SlotHoldsAWrittenHandle ==
    /\ apiSlot \in Written \cup {NIL}
    /\ \A r \in DOMAIN inflight :
          (inflight[r].kind = "topics" /\ inflight[r].pc \in {"calling", "done"}) =>
                inflight[r].h \in Written \cup {NIL}
====
